---------------------------- MODULE Spec2Model ----------------------------
(***************************************************************************)
(* Model of harryd-b/autocoder: the conversation store                     *)
(* (conversation_manager.py), the recursive orchestrator                   *)
(* (recursive_builder.py, main.py) and the verification and backend calls  *)
(* (verification.py, api_utils.py).                                        *)
(*                                                                         *)
(* Text is a sequence of tokens (strings).  The tokens " " and "\n" are    *)
(* whitespace, "?" is the question mark and "FENCE" is the triple-backtick *)
(* code fence; every other token is a run of ordinary characters.  A       *)
(* branch name is the sequence of its segments: <<"root", "_Q0">> is the   *)
(* name "root_Q0".                                                         *)
(* A message is [role, content, timestamp, message_id].  The clock reads   *)
(* the number of the store operation that reads it, 0 in an earlier        *)
(* process; a timestamp is the text of a clock reading.  The dict          *)
(* conversations is the mapping conversations with the order of its keys,  *)
(* key_order: a new key goes to the end, an assignment to a key that is    *)
(* present leaves it in its place.                                         *)
(***************************************************************************)
EXTENDS Integers, Sequences, FiniteSets, TLC

VARIABLES
    max_len,        \* MAX_CONVERSATION_LENGTH (config.yaml)
    conversations,  \* ConversationManager.conversations: branch -> messages
    key_order,      \* the keys of conversations in the order the dict holds them
    disk,           \* content of CONVERSATION_FILE: [exists, whole, data,
                    \* order, text]
    backup,         \* content of the backup file, as disk
    call,           \* the store operation that ran last, with its arguments
    ops,            \* number of store operations performed so far
    max_depth,      \* max_depth (config.yaml, or the caller's argument)
    tasks,          \* asyncio tasks of the run: branch -> frame
    running,        \* the task the event loop is executing, or NoTask
    files,          \* artifact files written: name -> code
    gen_calls,      \* number of call_model invocations
    verify_calls,   \* number of verify_code_with_chatgpt calls that have run
    faults,         \* number of file writes of the run that have failed
                    \* since the last one that succeeded
    ext             \* the call into verification.py or api_utils.py made by
                    \* the last step, with its arguments and its result

store_vars == <<max_len, conversations, key_order, disk, backup, call, ops>>
orch_vars ==
    <<max_depth, tasks, running, files, gen_calls, verify_calls, faults, ext>>
vars == <<store_vars, orch_vars>>

(***************************************************************************)
(* Bounds.                                                                 *)
(***************************************************************************)
MaxWindow == 3
MaxOps == 3
MaxDepth == 1
MaxGen == 2
MaxRaw == 5
MaxRetries == 3
MaxSaved == 2
MaxText == 5
MaxFaults == 1

(***************************************************************************)
(* Text helpers.                                                           *)
(***************************************************************************)
IsSpace(t) == t \in {" ", "\n"}

RECURSIVE lstrip(_)
lstrip(s) == IF s # <<>> /\ IsSpace(Head(s)) THEN lstrip(Tail(s)) ELSE s

RECURSIVE rstrip(_)
rstrip(s) ==
    IF s # <<>> /\ IsSpace(s[Len(s)]) THEN rstrip(SubSeq(s, 1, Len(s) - 1))
    ELSE s

strip_nothing(s) == s

\* str.strip()
strip(s) == rstrip(lstrip(s))

(***************************************************************************)
(* Conversation store.                                                     *)
(***************************************************************************)
EmptyStore == [b \in {} |-> <<>>]

Range(f) == {f[x] : x \in DOMAIN f}

Msg(role, content, timestamp, id) ==
    [role |-> role, content |-> content, timestamp |-> timestamp,
     message_id |-> id]

\* self.conversations.get(branch_name, [])
get_conversation(convs, branch_name) ==
    IF branch_name \in DOMAIN convs THEN convs[branch_name] ELSE <<>>

\* TRUE when validate_message returns, FALSE when it raises ValueError
validate_message(role, content) ==
    /\ role \in {"system", "user", "assistant"}
    /\ content # <<>>

\* conversation_history[-(n):] of Python: the last n elements, and for
\* n = 0 the slice [-0:] = [0:], which is the whole list
LastSlice(h, n) ==
    IF n = 0 \/ n >= Len(h) THEN h ELSE SubSeq(h, Len(h) - n + 1, Len(h))

slide_conversation_window(h, maxLen) ==
    IF Len(h) > maxLen
    THEN <<h[1]>> \o LastSlice(h, maxLen - 1)
    ELSE h

\* the line break and the indentation json.dump(..., indent=2) writes
Indent(level) == <<"\n">> \o [i \in 1..(2 * level) |-> " "]

\* the body of a JSON string: quote, backslash and newline are escaped
RECURSIVE json_escape(_)
json_escape(text) ==
    IF text = <<>> THEN <<>>
    ELSE (IF Head(text) = "\n" THEN <<"\\", "n">>
          ELSE IF Head(text) \in {"\"", "\\"} THEN <<"\\", Head(text)>>
          ELSE <<Head(text)>>) \o json_escape(Tail(text))

dump_string_raw(text) == <<"\"">> \o text \o <<"\"">>

\* a JSON string
dump_string(text) == <<"\"">> \o json_escape(text) \o <<"\"">>

Digits == <<"0", "1", "2", "3", "4", "5", "6", "7", "8", "9">>

RECURSIVE dump_int(_)
dump_int(n) ==
    IF n < 10 THEN <<Digits[n + 1]>>
    ELSE dump_int(n \div 10) \o <<Digits[(n % 10) + 1]>>

\* datetime.utcnow().isoformat() at clock reading n: a text of fixed
\* length, so that the texts compare as the readings do
isoformat(n) == <<Digits[(n \div 10) + 1], Digits[(n % 10) + 1]>>

\* a message dict, its keys in insertion order (update_conversation,
\* lines 73-78)
dump_message(m, level) ==
    <<"{">>
      \o Indent(level + 1) \o dump_string(<<"role">>) \o <<":", " ">>
      \o dump_string(<<m.role>>) \o <<",">>
      \o Indent(level + 1) \o dump_string(<<"content">>) \o <<":", " ">>
      \o dump_string(m.content) \o <<",">>
      \o Indent(level + 1) \o dump_string(<<"timestamp">>) \o <<":", " ">>
      \o dump_string(m.timestamp) \o <<",">>
      \o Indent(level + 1) \o dump_string(<<"message_id">>) \o <<":", " ">>
      \o dump_int(m.message_id)
      \o Indent(level) \o <<"}">>

RECURSIVE dump_items(_, _)
dump_items(h, level) ==
    dump_message(Head(h), level)
      \o IF Tail(h) = <<>> THEN <<>>
         ELSE <<",">> \o Indent(level) \o dump_items(Tail(h), level)

dump_list(h, level) ==
    IF h = <<>> THEN <<"[", "]">>
    ELSE <<"[">> \o Indent(level + 1) \o dump_items(h, level + 1)
           \o Indent(level) \o <<"]">>

\* the members of the dict, in the order of its keys
RECURSIVE dump_branches(_, _)
dump_branches(convs, keys) ==
    dump_string(Head(keys)) \o <<":", " ">> \o dump_list(convs[Head(keys)], 1)
      \o IF Tail(keys) = <<>> THEN <<>>
         ELSE <<",">> \o Indent(1) \o dump_branches(convs, Tail(keys))

\* the text json.dump(self.conversations, f, indent=2) writes for the dict
\* of mapping convs and key order keys
json_dump(convs, keys) ==
    IF keys = <<>> THEN <<"{", "}">>
    ELSE <<"{">> \o Indent(1) \o dump_branches(convs, keys)
           \o Indent(0) \o <<"}">>

\* The conversation file: absent, or holding the whole dump of a dict
\* (whole, data, order), or holding the part of a dump that was written
\* before the write failed (text).
absent ==
    [exists |-> FALSE, whole |-> FALSE, data |-> EmptyStore, order |-> <<>>,
     text |-> <<>>]
dumped(convs, keys) ==
    [exists |-> TRUE, whole |-> TRUE, data |-> convs, order |-> keys,
     text |-> <<>>]
cut_short(text) ==
    [exists |-> TRUE, whole |-> FALSE, data |-> EmptyStore, order |-> <<>>,
     text |-> text]

\* what open() and the write of a save do: open fails; or the file is
\* opened, which empties it, and the write fails after some tokens; or
\* the whole text is written
Saved == [opened |-> TRUE, complete |-> TRUE, written |-> 0]
OpenFails == [opened |-> FALSE, complete |-> FALSE, written |-> 0]
WriteFails(w) == [opened |-> TRUE, complete |-> FALSE, written |-> w]
SaveOutcomes == {Saved, OpenFails, WriteFails(0), WriteFails(1)}

\* the part of text that a write with outcome io leaves in the file: the
\* whole text, or less than the whole text when the write failed
written_part(text, io) ==
    IF io.complete THEN text
    ELSE IF io.written = 0 THEN <<>>
    ELSE IF io.written < Len(text) THEN SubSeq(text, 1, io.written)
    ELSE SubSeq(text, 1, Len(text) - 1)

\* open(CONVERSATION_FILE, "w") and json.dump of the whole dict; an
\* exception is caught and logged.  When open fails the file is as it
\* was; when the write fails the file, emptied by open, holds what was
\* written, less than the whole text
save_conversations(convs, keys, d, io) ==
    IF ~io.opened THEN d
    ELSE IF io.complete THEN dumped(convs, keys)
    ELSE cut_short(written_part(json_dump(convs, keys), io))

\* the keys of the dict after an assignment to key k
with_key(keys, k) ==
    IF \E i \in 1..Len(keys) : keys[i] = k THEN keys ELSE Append(keys, k)

\* the keys of the dict after del of key k
RECURSIVE without_key(_, _)
without_key(keys, k) ==
    IF keys = <<>> THEN <<>>
    ELSE IF Head(keys) = k THEN Tail(keys)
    ELSE <<Head(keys)>> \o without_key(Tail(keys), k)

\* the mapping after update_conversation(branch_name, role, content), the
\* clock reading now
update_conversation(convs, maxLen, branch_name, role, content, now) ==
    LET old == get_conversation(convs, branch_name)
        message == Msg(role, content, isoformat(now), Len(old) + 1)
        new == slide_conversation_window(Append(old, message), maxLen)
    IN  [b \in DOMAIN convs \cup {branch_name} |->
            IF b = branch_name THEN new ELSE convs[b]]

\* the mapping after delete_branch(branch_name), branch_name present
delete_branch(convs, branch_name) ==
    [b \in DOMAIN convs \ {branch_name} |-> convs[b]]

RECURSIVE SystemMsgs(_)
SystemMsgs(h) ==
    IF h = <<>> THEN <<>>
    ELSE IF Head(h).role = "system"
         THEN <<Head(h)>> \o SystemMsgs(Tail(h))
         ELSE SystemMsgs(Tail(h))

\* the mapping after clear_branch(branch_name), branch_name present
clear_branch(convs, branch_name) ==
    [b \in DOMAIN convs |->
        IF b = branch_name THEN SystemMsgs(convs[b]) ELSE convs[b]]

\* the timestamp of a message of an earlier process
Earlier == isoformat(0)

\* a < b for two strings of digits (Python compares strings character by
\* character; the empty string is below every other)
RECURSIVE str_less(_, _)
str_less(a, b) ==
    IF b = <<>> THEN FALSE
    ELSE IF a = <<>> THEN TRUE
    ELSE IF Head(a) = Head(b) THEN str_less(Tail(a), Tail(b))
    ELSE \E i, j \in 1..10 : i < j /\ Digits[i] = Head(a) /\ Digits[j] = Head(b)

\* the sort key of cleanup_old_branches: the timestamp of the last
\* message, and for an empty branch the empty string
last_timestamp(convs, b) ==
    IF convs[b] = <<>> THEN <<>> ELSE convs[b][Len(convs[b])].timestamp

\* sorted(self.conversations.items(), key=..., reverse=True), as the list
\* of the keys: the greatest sort key first, items of equal sort key in
\* the order the dict holds them (the sort is stable); acc is the sorted
\* list of the items taken so far
RECURSIVE sorted_branches(_, _, _)
sorted_branches(convs, keys, acc) ==
    IF keys = <<>> THEN acc
    ELSE LET b == Head(keys)
             n == Cardinality({i \in 1..Len(acc) :
                     ~str_less(last_timestamp(convs, acc[i]),
                               last_timestamp(convs, b))})
         IN  sorted_branches(convs, Tail(keys),
                 SubSeq(acc, 1, n) \o <<b>> \o SubSeq(acc, n + 1, Len(acc)))

\* len(sorted_branches[:max_branches]) for a list of n elements
slice_len(n, max_branches) ==
    IF max_branches >= n THEN n
    ELSE IF max_branches >= 0 THEN max_branches
    ELSE IF n + max_branches > 0 THEN n + max_branches ELSE 0

\* the keys of dict(sorted_branches[:max_branches])
kept_branches(convs, keys, max_branches) ==
    SubSeq(sorted_branches(convs, keys, <<>>), 1,
           slice_len(Len(keys), max_branches))


(***************************************************************************)
(* Response parser (recursive_builder.extract_questions_and_code).         *)
(***************************************************************************)
\* response_text.split("\n")
RECURSIVE SplitLines(_, _)
SplitLines(s, cur) ==
    IF s = <<>> THEN <<cur>>
    ELSE IF Head(s) = "\n"
         THEN <<cur>> \o SplitLines(Tail(s), <<>>)
         ELSE SplitLines(Tail(s), Append(cur, Head(s)))

EndsWithQ_raw(line) == line # <<>> /\ line[Len(line)] = "?"

\* line.strip().endswith("?")
EndsWithQ(line) == LET t == strip(line) IN t # <<>> /\ t[Len(t)] = "?"

RECURSIVE QuestionLines(_)
QuestionLines(lines) ==
    IF lines = <<>> THEN <<>>
    ELSE IF EndsWithQ(Head(lines))
         THEN <<strip(Head(lines))>> \o QuestionLines(Tail(lines))
         ELSE QuestionLines(Tail(lines))

\* index of the first fence at or after position p, 0 when there is none
RECURSIVE NextFence(_, _)
NextFence(s, p) ==
    IF p > Len(s) THEN 0
    ELSE IF s[p] = "FENCE" THEN p ELSE NextFence(s, p + 1)

\* re.findall of the non-greedy fence-to-fence pattern with re.DOTALL,
\* each match stripped
RECURSIVE FencedBlocks(_, _)
FencedBlocks(s, p) ==
    LET open == NextFence(s, p)
        close == IF open = 0 THEN 0 ELSE NextFence(s, open + 1)
    IN  IF open = 0 \/ close = 0 THEN <<>>
        ELSE <<strip(SubSeq(s, open + 1, close - 1))>>
                 \o FencedBlocks(s, close + 1)

extract_questions_and_code(response_text) ==
    [questions |-> QuestionLines(SplitLines(response_text, <<>>)),
     code_blocks |-> FencedBlocks(response_text, 1)]

(***************************************************************************)
(* Verdicts: the values verify_code_with_chatgpt returns.  none is the     *)
(* Python None; otherwise the value is the parsed JSON object, of which    *)
(* the keys "complete" and "feedback" are modelled ("missing" when the     *)
(* key is absent, "str:false" for the JSON string "false").  blk is the    *)
(* index of the code block the verification task was given.                *)
(***************************************************************************)
Verdict(none, complete, feedback) ==
    [none |-> none, complete |-> complete, feedback |-> feedback, blk |-> 0]

NoneVerdict == Verdict(TRUE, "missing", "missing")
EmptyVerdict == Verdict(FALSE, "missing", "missing")

Verdicts ==
    { NoneVerdict, EmptyVerdict,
      Verdict(FALSE, "true", "ok"),
      Verdict(FALSE, "false", "fb"),
      Verdict(FALSE, "false", "missing"),
      Verdict(FALSE, "str:false", "fb") }

\* not verification_data
IsFalsyVerdict(v) == v.none \/ (v.complete = "missing" /\ v.feedback = "missing")

\* truth value of verification_data.get("complete", False)
complete_flag(v) == v.complete \in {"true", "str:false"}

NoFeedback == "No feedback provided."

feedback_of_nodefault(v) == v.feedback

\* verification_data.get("feedback", "No feedback provided.")
feedback_of(v) == IF v.feedback = "missing" THEN NoFeedback ELSE v.feedback

complete_is_truthy(v) == v.complete \in {"true", "str:false"}

\* verification_data.get("complete") is True
complete_is_true(v) == v.complete = "true"

(***************************************************************************)
(* External checks (verification.py).  Both functions read the module      *)
(* global OUTPUT_DIR, which no statement of the module assigns: the        *)
(* lookup raises NameError before the subprocess is started.               *)
(***************************************************************************)
OUTPUT_DIR_defined == FALSE

\* "NameError", or the boolean result for the command exit code
run_lint_checks(returncode) ==
    IF ~OUTPUT_DIR_defined THEN "NameError"
    ELSE IF returncode # 0 THEN "False" ELSE "True"

run_tests_on_code(returncode) ==
    IF ~OUTPUT_DIR_defined THEN "NameError"
    ELSE IF returncode = 0 THEN "True" ELSE "False"

(***************************************************************************)
(* Store operations called one at a time by a client of the store.         *)
(***************************************************************************)
NoTask == <<>>
Root == <<"root">>

StoreBranches == {Root, <<"side">>}
\* the messages the client appends: two valid ones, one with empty
\* content, one with a role validate_message does not know
StoreMessages ==
    { [role |-> "system", content |-> <<"a">>],
      [role |-> "user", content |-> <<"a">>],
      [role |-> "user", content |-> <<>>],
      [role |-> "tool", content |-> <<"a">>] }

Called(op, branch, role, content, src, turn) ==
    [op |-> op, branch |-> branch, role |-> role, content |-> content,
     src |-> src, turn |-> turn]

NoCall == Called("none", NoTask, "", <<>>, "", NoTask)

\* a call of function fn made by task t with argument arg
ExtCall(fn, t, arg, result) ==
    [fn |-> fn, task |-> t, arg |-> arg, done |-> TRUE, result |-> result]

\* the same call before it is made
Request(fn, arg) == [fn |-> fn, task |-> NoTask, arg |-> arg, done |-> FALSE]

NoExt == [fn |-> "none"]

\* a conversation file written by an earlier process
LoadedStores ==
    { [b \in {Root} |-> <<Msg("system", <<"sys">>, Earlier, 1),
                          Msg("user", <<"a">>, Earlier, 2)>>] }

DoAppend_save_first(branch_name, role, content, io, src, turn) ==
    /\ conversations' =
           update_conversation(conversations, max_len, branch_name, role,
                               content, ops + 1)
    /\ key_order' = with_key(key_order, branch_name)
    /\ disk' = save_conversations(
                   update_conversation(conversations,
                       Len(get_conversation(conversations, branch_name)) + 1,
                       branch_name, role, content, ops + 1),
                   key_order', disk, io)
    /\ call' = Called("append", branch_name, role, content, src, turn)
    /\ ops' = ops + 1
    /\ UNCHANGED <<max_len, backup>>

\* the store effects of update_conversation, shared by every caller: the
\* message is appended, the window slides and the dict is saved, the
\* write having outcome io
DoAppend(branch_name, role, content, io, src, turn) ==
    /\ conversations' =
           update_conversation(conversations, max_len, branch_name, role,
                               content, ops + 1)
    /\ key_order' = with_key(key_order, branch_name)
    /\ disk' = save_conversations(conversations', key_order', disk, io)
    /\ call' = Called("append", branch_name, role, content, src, turn)
    /\ ops' = ops + 1
    /\ UNCHANGED <<max_len, backup>>

StoreAppend(b, role, content, io) ==
    /\ ops < MaxOps
    /\ DoAppend(b, role, content, io, "client", NoTask)
    /\ UNCHANGED orch_vars

StoreDelete(b, io) ==
    /\ ops < MaxOps
    /\ IF b \in DOMAIN conversations
       THEN /\ conversations' = delete_branch(conversations, b)
            /\ key_order' = without_key(key_order, b)
            /\ disk' = save_conversations(conversations', key_order', disk, io)
       ELSE UNCHANGED <<conversations, key_order, disk>>
    /\ call' = Called("delete", b, "", <<>>, "client", NoTask)
    /\ ops' = ops + 1
    /\ UNCHANGED <<max_len, backup, orch_vars>>

StoreClear(b, io) ==
    /\ ops < MaxOps
    /\ IF b \in DOMAIN conversations
       THEN /\ conversations' = clear_branch(conversations, b)
            /\ disk' = save_conversations(conversations', key_order, disk, io)
       ELSE UNCHANGED <<conversations, disk>>
    /\ call' = Called("clear", b, "", <<>>, "client", NoTask)
    /\ ops' = ops + 1
    /\ UNCHANGED <<max_len, key_order, backup, orch_vars>>

StoreGet_setdefault(b) ==
    /\ ops < MaxOps
    /\ call' = Called("get", b, "", get_conversation(conversations, b),
                      "client", NoTask)
    /\ conversations' = [x \in DOMAIN conversations \cup {b} |->
                            get_conversation(conversations, x)]
    /\ key_order' = with_key(key_order, b)
    /\ ops' = ops + 1
    /\ UNCHANGED <<max_len, disk, backup, orch_vars>>

\* get_conversation(b) called by the client: the list is returned
StoreGet(b) ==
    /\ ops < MaxOps
    /\ call' = Called("get", b, "", get_conversation(conversations, b),
                      "client", NoTask)
    /\ ops' = ops + 1
    /\ UNCHANGED <<max_len, conversations, key_order, disk, backup, orch_vars>>

\* cleanup_old_branches(max_branches) called by the client: when the
\* store holds more branches than max_branches, the dict is rebuilt from
\* the branches of the latest last messages, in the order of the sort,
\* and saved
StoreCleanup(max_branches, io) ==
    /\ ops < MaxOps
    /\ IF Len(key_order) > max_branches
       THEN /\ key_order' = kept_branches(conversations, key_order, max_branches)
            /\ conversations' = [b \in Range(key_order') |-> conversations[b]]
            /\ disk' = save_conversations(conversations', key_order', disk, io)
       ELSE UNCHANGED <<conversations, key_order, disk>>
    /\ call' = Called("cleanup", NoTask, "", <<>>, "client", NoTask)
    /\ ops' = ops + 1
    /\ UNCHANGED <<max_len, backup, orch_vars>>

\* backup_conversations() called by the client with its default argument:
\* the dict is dumped to the backup file as a save dumps it to the
\* conversation file; the store and the conversation file are not touched
StoreBackup(io) ==
    /\ ops < MaxOps
    /\ backup' = save_conversations(conversations, key_order, backup, io)
    /\ call' = Called("backup", NoTask, "", <<>>, "client", NoTask)
    /\ ops' = ops + 1
    /\ UNCHANGED <<max_len, conversations, key_order, disk, orch_vars>>

\* ConversationManager(): load_conversations reads the file when it
\* exists; no run of the orchestrator is in progress
StoreInit ==
    /\ max_len \in {1, MaxWindow}
    /\ \/ /\ disk = absent
          /\ conversations = EmptyStore
       \/ /\ \E c \in LoadedStores : disk = dumped(c, <<Root>>)
          /\ conversations = disk.data
    /\ key_order = disk.order
    /\ backup = absent
    /\ call = NoCall
    /\ ops = 0
    /\ max_depth = 0
    /\ tasks = EmptyStore
    /\ running = NoTask
    /\ files = EmptyStore
    /\ gen_calls = 0
    /\ verify_calls = 0
    /\ faults = 0
    /\ ext = NoExt

StoreNext ==
    \/ \E b \in StoreBranches, m \in StoreMessages, io \in SaveOutcomes :
          StoreAppend(b, m.role, m.content, io)
    \/ \E b \in StoreBranches, io \in SaveOutcomes : StoreDelete(b, io)
    \/ \E b \in StoreBranches, io \in SaveOutcomes : StoreClear(b, io)
    \/ \E b \in StoreBranches : StoreGet(b)
    \/ \E max_branches \in {0, 1}, io \in SaveOutcomes :
          StoreCleanup(max_branches, io)
    \/ \E io \in SaveOutcomes : StoreBackup(io)

StoreSpec == StoreInit /\ [][StoreNext]_vars


(***************************************************************************)
(* Orchestrator (recursive_builder.py, main.py).                           *)
(*                                                                         *)
(* The run is a set of asyncio tasks on one event loop: the root task and  *)
(* one task per handle_question coroutine passed to asyncio.gather.  A     *)
(* task runs without interruption up to its next suspension point: the     *)
(* await of the verification futures, the await of input() in a thread,    *)
(* the await of the question tasks.  call_model, the verification inside   *)
(* refine_incomplete_code, lint and tests are blocking calls made on the   *)
(* event loop.  running names the task that holds the loop.                *)
(*                                                                         *)
(* A frame keeps, next to the locals of the coroutine, a record of what    *)
(* the task has done: entered (entries into recursive_prompt), asked       *)
(* (input() requests), plog (blocks processed, in order), refines          *)
(* (refine_incomplete_code calls, in order) and hist0 (the branch as it    *)
(* was when recursive_prompt was entered), replied (call_model has         *)
(* returned a reply to the turn) and reply (what call_model did).  An      *)
(* entry of refines also counts the call_model calls (gen) and the         *)
(* verify_code_with_chatgpt calls (ver) and the run_lint_checks calls      *)
(* (lint) of its refinement.  late says that the task has been resumed     *)
(* after the root task ended with an exception: asyncio.run stops the loop *)
(* at the end of the iteration that runs the done-callback of the root     *)
(* task, so a task that is ready runs once more, up to its next await,     *)
(* before every pending task is cancelled.                                 *)
(***************************************************************************)
SystemMessage == <<"You are an analyst programmer.">>
DefaultPrompt == <<"I want to build a complex software application.">>

RootPrompts == {<<>>, <<"build">>}
Answers == {<<>>, <<"yes">>}

Replies ==
    { <<" ">>,
      <<"done">>,
      <<"what", "?">>,
      <<"what", "?", "\n", "why", "?">>,
      <<"FENCE", "python", "\n", "x", "\n", "FENCE">>,
      <<"FENCE", "x", "FENCE", "FENCE", "y", "FENCE">>,
      <<"FENCE", "x", "FENCE", "\n", "what", "?">> }

\* the replies drawn for the turns that follow an answer
FollowUpReplies ==
    { <<"done">>,
      <<"what", "?">>,
      <<"FENCE", "x", "FENCE">> }

RefineReplies ==
    { <<>>,
      <<"sorry">>,
      <<"FENCE", "z", "FENCE", "\n", "FENCE", "w", "FENCE">> }

\* what call_model does: raise after the retries, or return the text; the
\* backend answers MaxGen calls of a run and fails from then on
Raised == [raised |-> TRUE, text |-> <<>>]
Returned(text) == [raised |-> FALSE, text |-> text]
ModelOutcomes(root) ==
    {Raised} \cup {Returned(r) : r \in IF root THEN Replies ELSE FollowUpReplies}
RefineOutcomes == {Raised} \cup {Returned(r) : r \in RefineReplies}
NoReply == Returned(<<>>)

QName == <<"_Q0", "_Q1", "_Q2", "_Q3">>

child_branch_unnumbered(branch_name, k) == Append(branch_name, "_Q")

\* f"{branch_name}_Q{i}", i counted from 0
child_branch(branch_name, k) == Append(branch_name, QName[k])

\* f"{branch_name}_part{i}.py" and f"{branch_name}_refined_{code_index}.py"
file_name(branch_name, kind, k) ==
    [branch |-> branch_name, kind |-> kind, index |-> k - 1]

\* save_code_locally, lines 117-126: open(file_path, "w") and the write
\* of the code; an exception is caught and logged.  When open fails the
\* files are as they were; when the write fails the file, created or
\* emptied by open, holds what was written
save_code_locally(fs, name, code, io) ==
    IF ~io.opened THEN fs
    ELSE [n \in DOMAIN fs \cup {name} |->
             IF n = name THEN written_part(code, io) ELSE fs[n]]

\* what a file write of a run does: it succeeds, or open fails, or the
\* write fails and leaves the file empty
RunOutcomes == {Saved, OpenFails, WriteFails(0)}

\* a file write of the run has outcome io; at most MaxFaults writes in a
\* row fail
Write(io) ==
    /\ io # Saved => faults < MaxFaults
    /\ faults' = IF io = Saved THEN 0 ELSE faults + 1

\* the step writes no file
NoWrite(io) == io = Saved /\ UNCHANGED faults

refine_prompt(incomplete_feedback, existing_code_snippet) ==
    <<"We received the following feedback from a verification step:",
      "\n", "'", incomplete_feedback, "'", "\n",
      "Please refine the following code snippet to address these issues.",
      "\n", "FENCE", "python", "\n">>
        \o existing_code_snippet \o <<"\n", "FENCE">>

depth_exceeded_late(depth, maxDepth) == depth > maxDepth + 1

\* the test at the entry of recursive_prompt and of handle_question
depth_exceeded(depth, maxDepth) == depth > maxDepth

Frame(pc, depth, parent, qidx, question) ==
    [pc |-> pc, depth |-> depth, parent |-> parent, qidx |-> qidx,
     question |-> question, prompt |-> <<>>, answer |-> <<>>,
     questions |-> <<>>, code_blocks |-> <<>>, vdone |-> <<>>,
     results |-> <<>>, i |-> 0, improved |-> <<>>,
     entered |-> 0, asked |-> 0, plog |-> <<>>, refines |-> <<>>,
     hist0 |-> <<>>, replied |-> FALSE, reply |-> NoReply, late |-> FALSE]

gather_as_completed(vdone, n) == [k \in 1..n |-> vdone[k].verdict]

\* asyncio.gather: the results in the order of the awaitables passed
gather(vdone, n) ==
    [k \in 1..n |-> (CHOOSE e \in Range(vdone) : e.idx = k).verdict]

Ended(pc) == pc \in {"done", "failed", "cancelled"}

\* the task returns normally
Returns(tk, t) == [tk EXCEPT ![t].pc = "done"]

Raises_swallowed(tk, t) == [tk EXCEPT ![t].pc = "done"]

\* the task ends with an exception; the tasks still pending go on, the
\* task that awaits this one, or asyncio.run for the root task, takes up
\* the exception in a later step
Raises(tk, t) == [tk EXCEPT ![t].pc = "failed"]

\* the loop resumes a task whose await has completed: at any time while
\* the root task is pending, and once more, up to its next await, after
\* the root task has ended with an exception (the loop stops at the end of
\* the iteration that runs the done-callback of the root task)
Scheduled(t) == tasks[Root].pc = "failed" => ~tasks[t].late

\* the frames tk, task t resumed by the loop
Resumed(tk, t) == [tk EXCEPT ![t].late = (tasks[Root].pc = "failed")]

Children(t) == {c \in DOMAIN tasks : tasks[c].parent = t}

OrchInit ==
    /\ max_len = MaxWindow
    /\ \/ /\ disk = absent
          /\ conversations = EmptyStore
       \/ /\ disk = dumped([b \in {Root} |->
                                <<Msg("system", SystemMessage, Earlier, 1)>>],
                            <<Root>>)
          /\ conversations = disk.data
    /\ key_order = disk.order
    /\ backup = absent
    /\ call = NoCall
    /\ ops = 0
    /\ max_depth \in {0, MaxDepth}
    /\ tasks = [b \in {Root} |-> Frame("start", 0, NoTask, 0, <<>>)]
    /\ running = Root
    /\ files = EmptyStore
    /\ gen_calls = 0
    /\ verify_calls = 0
    /\ faults = 0
    /\ ext = NoExt

Main_reseed(io) ==
    /\ running = Root
    /\ tasks[Root].pc = "start"
    /\ DoAppend(Root, "system", SystemMessage, io, "seed", Root)
    /\ Write(io)
    /\ tasks' = [tasks EXCEPT ![Root].pc = "main_wait_input"]
    /\ running' = NoTask
    /\ UNCHANGED <<max_depth, files, gen_calls, verify_calls>>
    /\ ext' = NoExt

\* main(), lines 23-49: seed the root branch when it is empty, start
\* input() for the root prompt in a thread and wait for it
Main(io) ==
    /\ running = Root
    /\ tasks[Root].pc = "start"
    /\ IF get_conversation(conversations, Root) = <<>>
       THEN /\ DoAppend(Root, "system", SystemMessage, io, "seed", Root)
            /\ Write(io)
       ELSE /\ UNCHANGED store_vars
            /\ NoWrite(io)
    /\ tasks' = [tasks EXCEPT ![Root].pc = "main_wait_input"]
    /\ running' = NoTask
    /\ UNCHANGED <<max_depth, files, gen_calls, verify_calls>>
    /\ ext' = NoExt

\* main(), lines 49-71: input() returns the root prompt, the task resumes,
\* replaces a blank prompt by the default one and calls recursive_prompt
MainPrompt(user_root_prompt) ==
    /\ running = NoTask
    /\ tasks[Root].pc = "main_wait_input"
    /\ tasks' = [tasks EXCEPT ![Root].pc = "rp_entry",
                              ![Root].depth = 0,
                              ![Root].prompt =
                                  IF strip(user_root_prompt) = <<>>
                                  THEN DefaultPrompt ELSE user_root_prompt]
    /\ running' = Root
    /\ UNCHANGED <<store_vars, max_depth, files, gen_calls, verify_calls,
                   faults>>
    /\ ext' = NoExt

\* main(), line 49: input() raises EOFError (end of file on standard
\* input); the exception ends the root task
MainInputFails ==
    /\ running = NoTask
    /\ tasks[Root].pc = "main_wait_input"
    /\ tasks' = Raises(tasks, Root)
    /\ UNCHANGED <<store_vars, max_depth, running, files, gen_calls,
                   verify_calls, faults>>
    /\ ext' = NoExt

\* recursive_prompt called directly by a client (as the tests do)
DirectCall(d) ==
    /\ running = Root
    /\ tasks[Root].pc = "start"
    /\ tasks' = [tasks EXCEPT ![Root].pc = "rp_entry",
                              ![Root].depth = d,
                              ![Root].prompt = <<"build">>]
    /\ UNCHANGED <<store_vars, max_depth, running, files, gen_calls,
                   verify_calls, faults>>
    /\ ext' = NoExt

\* recursive_prompt, lines 235-240: depth test, append of the prompt
RpEntry(t, io) ==
    /\ running = t
    /\ tasks[t].pc = "rp_entry"
    /\ IF depth_exceeded(tasks[t].depth, max_depth)
       THEN /\ tasks' = [tasks EXCEPT
                       ![t].pc = "done",
                       ![t].entered = @ + 1,
                       ![t].hist0 = get_conversation(conversations, t)]
            /\ running' = NoTask
            /\ UNCHANGED store_vars
            /\ NoWrite(io)
       ELSE /\ DoAppend(t, "user", tasks[t].prompt, io, "prompt", t)
            /\ Write(io)
            /\ tasks' = [tasks EXCEPT
                       ![t].pc = "rp_generate",
                       ![t].entered = @ + 1,
                       ![t].hist0 = get_conversation(conversations, t)]
            /\ UNCHANGED running
    /\ UNCHANGED <<max_depth, files, gen_calls, verify_calls>>
    /\ ext' = NoExt

\* recursive_prompt, lines 243-268: generation, append of the reply,
\* parsing, dispatch of one verification per code block
RpGenerate(t, out, io) ==
    /\ running = t
    /\ tasks[t].pc = "rp_generate"
    /\ gen_calls < MaxGen \/ out.raised
    /\ gen_calls' = gen_calls + 1
    /\ IF out.raised
       THEN /\ tasks' = Raises([tasks EXCEPT ![t].reply = out], t)
            /\ running' = NoTask
            /\ UNCHANGED <<store_vars, verify_calls>>
            /\ NoWrite(io)
       ELSE LET assistant_response == strip(out.text)
                parsed == extract_questions_and_code(assistant_response)
                n == Len(parsed.code_blocks)
            IN  IF assistant_response = <<>>
                THEN /\ tasks' = Returns([tasks EXCEPT ![t].replied = TRUE,
                                                        ![t].reply = out], t)
                     /\ running' = NoTask
                     /\ UNCHANGED <<store_vars, verify_calls>>
                     /\ NoWrite(io)
                ELSE /\ DoAppend(t, "assistant", assistant_response, io,
                                 "reply", t)
                     /\ Write(io)
                     /\ UNCHANGED verify_calls
                     /\ tasks' = [tasks EXCEPT
                            ![t].replied = TRUE,
                            ![t].reply = out,
                            ![t].questions = parsed.questions,
                            ![t].code_blocks = parsed.code_blocks,
                            ![t].vdone = <<>>,
                            ![t].results = <<>>,
                            ![t].i = 1,
                            ![t].pc = IF n = 0 THEN "rp_process"
                                      ELSE "rp_wait_verify"]
                     /\ running' = IF n = 0 THEN t ELSE NoTask
    /\ UNCHANGED <<max_depth, files>>
    /\ ext' = NoExt

\* the task was cancelled while it awaited its verifications: it has
\* dispatched them (line 260) and has not taken up their results (line
\* 268)
CancelledVerifying(t) ==
    /\ tasks[t].pc = "cancelled"
    /\ tasks[t].code_blocks # <<>>
    /\ tasks[t].results = <<>>

\* a thread of the executor runs verify_code_with_chatgpt for block k,
\* submitted at lines 260-266, and the call returns its verdict.  The
\* thread does not depend on the task: a call whose task has been
\* cancelled by asyncio.run in the meantime may still run and return, or,
\* not yet started, not be made
VerifyReturns(t, k, v) ==
    /\ tasks[t].pc = "rp_wait_verify" \/ CancelledVerifying(t)
    /\ k \in 1..Len(tasks[t].code_blocks)
    /\ \A e \in Range(tasks[t].vdone) : e.idx # k
    /\ tasks' = [tasks EXCEPT ![t].vdone =
                    Append(@, [idx |-> k, verdict |-> [v EXCEPT !.blk = k]])]
    /\ verify_calls' = verify_calls + 1
    /\ UNCHANGED <<store_vars, max_depth, running, files, gen_calls, faults>>
    /\ ext' = NoExt

\* recursive_prompt, line 268: all verifications are in, the task resumes
RpGathered(t) ==
    /\ running = NoTask
    /\ tasks[t].pc = "rp_wait_verify"
    /\ Len(tasks[t].vdone) = Len(tasks[t].code_blocks)
    /\ Scheduled(t)
    /\ tasks' = Resumed([tasks EXCEPT
           ![t].results = gather(tasks[t].vdone, Len(tasks[t].code_blocks)),
           ![t].pc = "rp_process"], t)
    /\ running' = t
    /\ UNCHANGED <<store_vars, max_depth, files, gen_calls, verify_calls,
                   faults>>
    /\ ext' = NoExt

Processed(k, v, act, fb) ==
    [idx |-> k, verdict |-> v, act |-> act, feedback |-> fb]

\* recursive_prompt, lines 271-298: one turn of the loop over the blocks,
\* up to the call of refine_incomplete_code and its append of the prompt
RpProcessBlock(t, lint_rc, test_rc, io) ==
    /\ running = t
    /\ tasks[t].pc = "rp_process"
    /\ tasks[t].i <= Len(tasks[t].code_blocks)
    /\ LET k == tasks[t].i
           verification_data == tasks[t].results[k]
           code_snippet == tasks[t].code_blocks[k]
           feedback == feedback_of(verification_data)
           file == file_name(t, "_part", k)
           lint_ok == run_lint_checks(lint_rc)
           tests_ok == run_tests_on_code(test_rc)
       IN  IF IsFalsyVerdict(verification_data)
           THEN /\ tasks' = [tasks EXCEPT
                       ![t].i = k + 1,
                       ![t].plog = Append(@,
                           Processed(k, verification_data, "skip", ""))]
                /\ ext' = NoExt
                /\ UNCHANGED <<store_vars, running, files>>
                /\ NoWrite(io)
           ELSE IF complete_flag(verification_data)
           THEN LET saved == [tasks EXCEPT ![t].plog = Append(@,
                               Processed(k, verification_data, "save", ""))]
                IN  /\ files' = save_code_locally(files, file, code_snippet, io)
                    /\ Write(io)
                    /\ ext' = ExtCall("run_lint_checks", t, file, lint_ok)
                    /\ IF lint_ok = "NameError" \/ tests_ok = "NameError"
                       THEN /\ tasks' = Raises(saved, t)
                            /\ running' = NoTask
                       ELSE /\ tasks' = [saved EXCEPT ![t].i = k + 1]
                            /\ UNCHANGED running
                    /\ UNCHANGED store_vars
           ELSE /\ DoAppend(t, "user", refine_prompt(feedback, code_snippet),
                            io, "refine_prompt", t)
                /\ Write(io)
                /\ tasks' = [tasks EXCEPT
                       ![t].pc = "rf_generate",
                       ![t].plog = Append(@,
                           Processed(k, verification_data, "refine", feedback)),
                       ![t].refines = Append(@,
                           [idx |-> k, feedback |-> feedback,
                            code |-> code_snippet, gen |-> 0,
                            ver |-> 0, lint |-> 0])]
                /\ ext' = NoExt
                /\ UNCHANGED <<running, files>>
    /\ UNCHANGED <<max_depth, gen_calls, verify_calls>>

\* the record of the refinement in progress, brought up to date
NoteRefine(tk, t, gen, ver, lint) ==
    LET n == Len(tk[t].refines)
    IN  [tk EXCEPT ![t].refines[n].gen = @ + gen,
                   ![t].refines[n].ver = @ + ver,
                   ![t].refines[n].lint = @ + lint]

RefineReturns_retry(tk, t) == [tk EXCEPT ![t].pc = "rp_process"]

\* refine_incomplete_code returns; the loop of recursive_prompt goes on
\* with the next code block
RefineReturns(tk, t) == [tk EXCEPT ![t].pc = "rp_process", ![t].i = @ + 1]

\* refine_incomplete_code, lines 153-165
RfGenerate(t, out, io) ==
    /\ running = t
    /\ tasks[t].pc = "rf_generate"
    /\ gen_calls < MaxGen \/ out.raised
    /\ gen_calls' = gen_calls + 1
    /\ LET noted == NoteRefine(tasks, t, 1, 0, 0)
       IN  IF out.raised
           THEN /\ tasks' = Raises(noted, t)
                /\ running' = NoTask
                /\ UNCHANGED store_vars
                /\ NoWrite(io)
           ELSE LET improvement_response == out.text
                    parsed == extract_questions_and_code(improvement_response)
                IN  /\ DoAppend(t, "assistant", improvement_response, io,
                                "refine_reply", t)
                    /\ Write(io)
                    /\ IF parsed.code_blocks = <<>>
                       THEN tasks' = RefineReturns(noted, t)
                       ELSE tasks' = [noted EXCEPT
                                ![t].pc = "rf_verify",
                                ![t].improved = parsed.code_blocks[1]]
                    /\ UNCHANGED running
    /\ UNCHANGED <<max_depth, files, verify_calls>>
    /\ ext' = NoExt

\* refine_incomplete_code, lines 166-178
RfVerify(t, v, lint_rc, test_rc, io) ==
    /\ running = t
    /\ tasks[t].pc = "rf_verify"
    /\ verify_calls' = verify_calls + 1
    /\ LET file == file_name(t, "_refined_", tasks[t].i)
           lint_ok == run_lint_checks(lint_rc)
           tests_ok == run_tests_on_code(test_rc)
       IN  IF ~IsFalsyVerdict(v) /\ complete_is_true(v)
           THEN /\ files' = save_code_locally(files, file, tasks[t].improved, io)
                /\ Write(io)
                /\ IF lint_ok = "NameError" \/ tests_ok = "NameError"
                   THEN /\ tasks' = Raises(NoteRefine(tasks, t, 0, 1, 1), t)
                        /\ running' = NoTask
                   ELSE /\ tasks' =
                              RefineReturns(NoteRefine(tasks, t, 0, 1, 1), t)
                        /\ UNCHANGED running
           ELSE /\ tasks' = RefineReturns(NoteRefine(tasks, t, 0, 1, 0), t)
                /\ UNCHANGED <<running, files>>
                /\ NoWrite(io)
    /\ UNCHANGED <<store_vars, max_depth, gen_calls>>
    /\ ext' = ExtCall("verify_code_with_chatgpt", t, tasks[t].improved, v)

RpQuestions_before_blocks(t) ==
    /\ running = t
    /\ tasks[t].pc = "rp_process"
    /\ tasks[t].i <= Len(tasks[t].code_blocks) + 1
    /\ LET qs == tasks[t].questions
           kids == {child_branch(t, k) : k \in 1..Len(qs)}
       IN  IF qs = <<>>
           THEN tasks' = Returns(tasks, t)
           ELSE tasks' = [b \in DOMAIN tasks \cup kids |->
                    IF b = t THEN [tasks[t] EXCEPT !.pc = "rp_wait_questions"]
                    ELSE IF b \in kids
                    THEN LET k == CHOOSE j \in 1..Len(qs) :
                                      child_branch(t, j) = b
                         IN  Frame("hq_entry", tasks[t].depth + 1, t, k, qs[k])
                    ELSE tasks[b]]
    /\ running' = NoTask
    /\ UNCHANGED <<store_vars, max_depth, files, gen_calls, verify_calls,
                   faults>>
    /\ ext' = NoExt

\* recursive_prompt, lines 300-309: one handle_question task per question
RpQuestions(t) ==
    /\ running = t
    /\ tasks[t].pc = "rp_process"
    /\ tasks[t].i = Len(tasks[t].code_blocks) + 1
    /\ LET qs == tasks[t].questions
           kids == {child_branch(t, k) : k \in 1..Len(qs)}
       IN  IF qs = <<>>
           THEN tasks' = Returns(tasks, t)
           ELSE tasks' = [b \in DOMAIN tasks \cup kids |->
                    IF b = t THEN [tasks[t] EXCEPT !.pc = "rp_wait_questions"]
                    ELSE IF b \in kids
                    THEN LET k == CHOOSE j \in 1..Len(qs) :
                                      child_branch(t, j) = b
                         IN  Frame("hq_entry", tasks[t].depth + 1, t, k, qs[k])
                    ELSE tasks[b]]
    /\ running' = NoTask
    /\ UNCHANGED <<store_vars, max_depth, files, gen_calls, verify_calls,
                   faults>>
    /\ ext' = NoExt

HqEntry_no_depth_test(c) ==
    /\ running = NoTask
    /\ tasks[c].pc = "hq_entry"
    /\ Scheduled(c)
    /\ tasks' = Resumed([tasks EXCEPT ![c].pc = "hq_wait_input",
                                      ![c].asked = @ + 1], c)
    /\ UNCHANGED <<store_vars, max_depth, running, files, gen_calls,
                   verify_calls, faults>>
    /\ ext' = NoExt

\* handle_question, lines 196-205: depth test, input() started in a thread
HqEntry(c) ==
    /\ running = NoTask
    /\ tasks[c].pc = "hq_entry"
    /\ Scheduled(c)
    /\ IF depth_exceeded(tasks[c].depth, max_depth)
       THEN tasks' = Resumed(Returns(tasks, c), c)
       ELSE tasks' = Resumed([tasks EXCEPT ![c].pc = "hq_wait_input",
                                           ![c].asked = @ + 1], c)
    /\ UNCHANGED <<store_vars, max_depth, running, files, gen_calls,
                   verify_calls, faults>>
    /\ ext' = NoExt

\* handle_question, lines 202-217: input() returns the answer typed by
\* the human, the task resumes, appends it and calls recursive_prompt
HqResume(c, user_answer, io) ==
    /\ running = NoTask
    /\ tasks[c].pc = "hq_wait_input"
    /\ Scheduled(c)
    /\ DoAppend(c, "user", user_answer, io, "answer", tasks[c].parent)
    /\ Write(io)
    /\ tasks' = Resumed([tasks EXCEPT ![c].pc = "rp_entry",
                                      ![c].answer = user_answer,
                                      ![c].prompt = user_answer], c)
    /\ running' = c
    /\ UNCHANGED <<max_depth, files, gen_calls, verify_calls>>
    /\ ext' = NoExt

\* handle_question, lines 202-205: input() raises EOFError (end of file on
\* standard input); the exception ends the task
HqInputFails(c) ==
    /\ running = NoTask
    /\ tasks[c].pc = "hq_wait_input"
    /\ Scheduled(c)
    /\ tasks' = Resumed(Raises(tasks, c), c)
    /\ UNCHANGED <<store_vars, max_depth, running, files, gen_calls,
                   verify_calls, faults>>
    /\ ext' = NoExt

\* recursive_prompt, line 309: every question task has returned
RpQuestionsDone(t) ==
    /\ running = NoTask
    /\ tasks[t].pc = "rp_wait_questions"
    /\ \A c \in Children(t) : tasks[c].pc = "done"
    /\ Scheduled(t)
    /\ tasks' = Resumed(Returns(tasks, t), t)
    /\ UNCHANGED <<store_vars, max_depth, running, files, gen_calls,
                   verify_calls, faults>>
    /\ ext' = NoExt

\* recursive_prompt, line 309: gather hands over a question task's exception
RpChildFailed(t) ==
    /\ running = NoTask
    /\ tasks[t].pc = "rp_wait_questions"
    /\ \E c \in Children(t) : tasks[c].pc = "failed"
    /\ Scheduled(t)
    /\ tasks' = Resumed(Raises(tasks, t), t)
    /\ UNCHANGED <<store_vars, max_depth, running, files, gen_calls,
                   verify_calls, faults>>
    /\ ext' = NoExt

\* asyncio.run(main()), lines 80-86: the root task has ended with an
\* exception, the loop has stopped, and every task still pending is
\* cancelled
RunCancelsTasks ==
    /\ running = NoTask
    /\ tasks[Root].pc = "failed"
    /\ \E b \in DOMAIN tasks : ~Ended(tasks[b].pc)
    /\ tasks' = [b \in DOMAIN tasks |->
                    IF Ended(tasks[b].pc) THEN tasks[b]
                    ELSE [tasks[b] EXCEPT !.pc = "cancelled"]]
    /\ UNCHANGED <<store_vars, max_depth, running, files, gen_calls,
                   verify_calls, faults>>
    /\ ext' = NoExt

\* the tasks that are at position pc of their code
At(pc) == {t \in DOMAIN tasks : tasks[t].pc = pc}

Init == OrchInit

Next ==
    \/ \E io \in RunOutcomes : Main(io)
    \/ \E p \in RootPrompts : MainPrompt(p)
    \/ MainInputFails
    \/ \E d \in {0, max_depth + 1} : DirectCall(d)
    \/ \E t \in At("rp_entry"), io \in RunOutcomes : RpEntry(t, io)
    \/ \E t \in At("rp_generate"), io \in RunOutcomes :
           \E out \in ModelOutcomes(t = Root) : RpGenerate(t, out, io)
    \/ \E t \in DOMAIN tasks, k \in 1..3, v \in Verdicts :
           VerifyReturns(t, k, v)
    \/ \E t \in At("rp_wait_verify") : RpGathered(t)
    \/ \E t \in At("rp_process"), l \in {0, 1}, p \in {0, 1},
          io \in RunOutcomes : RpProcessBlock(t, l, p, io)
    \/ \E t \in At("rf_generate"), out \in RefineOutcomes,
          io \in RunOutcomes : RfGenerate(t, out, io)
    \/ \E t \in At("rf_verify"), v \in Verdicts, l \in {0, 1}, p \in {0, 1},
          io \in RunOutcomes : RfVerify(t, v, l, p, io)
    \/ \E t \in At("rp_process") : RpQuestions(t)
    \/ \E t \in At("hq_entry") : HqEntry(t)
    \/ \E t \in At("hq_wait_input"), a \in Answers, io \in RunOutcomes :
           HqResume(t, a, io)
    \/ \E t \in At("hq_wait_input") : HqInputFails(t)
    \/ \E t \in At("rp_wait_questions") : RpQuestionsDone(t)
    \/ \E t \in At("rp_wait_questions") : RpChildFailed(t)
    \/ RunCancelsTasks

Spec == Init /\ [][Next]_vars


(***************************************************************************)
(* verification.py, api_utils.py, the response parser and the             *)
(* conversation file, one call at a time.                                  *)
(*                                                                         *)
(* The raw text of a verification response is a sequence of the tokens     *)
(* "{", "}", ",", " " and of the members "complete:true" (the JSON text    *)
(* "complete": true) and "feedback:fb" ("feedback": "fb").                 *)
(***************************************************************************)
RawResponses ==
    UNION {[1..n -> {"{", "}", ",", " ", "complete:true", "feedback:fb"}] :
              n \in 0..MaxRaw}

\* what a call does: it gives a value or it throws
Gave(v) == [raised |-> FALSE, value |-> v]
Threw == [raised |-> TRUE, value |-> NoneVerdict]

RECURSIVE FirstIndex(_, _, _)
FirstIndex(s, tok, p) ==
    IF p > Len(s) THEN 0
    ELSE IF s[p] = tok THEN p ELSE FirstIndex(s, tok, p + 1)

RECURSIVE LastIndex(_, _, _)
LastIndex(s, tok, p) ==
    IF p = 0 THEN 0
    ELSE IF s[p] = tok THEN p ELSE LastIndex(s, tok, p - 1)

\* re.search(r"\{.*\}", raw_response, re.DOTALL).group(0), <<>> for no
\* match: the pattern is greedy, from the first "{" to the last "}"
json_match(raw_response) ==
    LET open == FirstIndex(raw_response, "{", 1)
        close == LastIndex(raw_response, "}", Len(raw_response))
    IN  IF open = 0 \/ close < open THEN <<>>
        ELSE SubSeq(raw_response, open, close)

\* the text without the whitespace json.loads skips between tokens
RECURSIVE Unspaced(_)
Unspaced(s) ==
    IF s = <<>> THEN <<>>
    ELSE IF IsSpace(Head(s)) THEN Unspaced(Tail(s))
         ELSE <<Head(s)>> \o Unspaced(Tail(s))

\* the dict with the member added; a repeated key keeps the last value
SetMember(v, tok) ==
    IF tok = "complete:true" THEN [v EXCEPT !.complete = "true"]
    ELSE [v EXCEPT !.feedback = "fb"]

\* the members of an object: member ("," member)*
RECURSIVE Members(_, _)
Members(body, v) ==
    IF body = <<>> \/ Head(body) \notin {"complete:true", "feedback:fb"}
    THEN Threw
    ELSE IF Tail(body) = <<>> THEN Gave(SetMember(v, Head(body)))
    ELSE IF Head(Tail(body)) = "," THEN Members(Tail(Tail(body)), SetMember(v, Head(body)))
    ELSE Threw

\* json.loads of a text that starts with "{" and ends with "}":
\* JSONDecodeError unless the text is exactly one object
json_loads(json_str) ==
    LET body == Unspaced(SubSeq(json_str, 2, Len(json_str) - 1))
    IN  IF body = <<>> THEN Gave(EmptyVerdict) ELSE Members(body, EmptyVerdict)

catch_all_reraise(r) == r

\* try: ... except Exception: return None
catch_all(r) == IF r.raised THEN Gave(NoneVerdict) ELSE r

\* verify_code_with_chatgpt, given the text the verification model sends
\* (call_fails: call_verification_model raises instead)
verify_code_with_chatgpt(raw, call_fails) ==
    catch_all(
        IF call_fails THEN Threw
        ELSE LET raw_response == strip(raw)
                 m == json_match(raw_response)
             IN  IF raw_response = <<>> THEN Gave(NoneVerdict)
                 ELSE IF m = <<>> THEN Gave(NoneVerdict)
                 ELSE json_loads(m))


stop_after_attempt_late(attempt_number, max_attempt_number) ==
    attempt_number > max_attempt_number

\* tenacity.stop_after_attempt(MAX_RETRIES)
stop_after_attempt(attempt_number, max_attempt_number) ==
    attempt_number >= max_attempt_number

\* a function under @retry(reraise=True, stop=stop_after_attempt(n),
\* retry=retry_if_exception_type(error)): outcomes[k] is what the body does
\* at its k-th execution, "ok" or the name of the exception it raises
RECURSIVE with_retry(_, _, _, _)
with_retry(outcomes, attempt_number, n, error) ==
    LET o == outcomes[attempt_number]
    IN  IF o = "ok"
        THEN [attempts |-> attempt_number, raised |-> FALSE, error |-> "none"]
        ELSE IF o # error \/ stop_after_attempt(attempt_number, n)
        THEN [attempts |-> attempt_number, raised |-> TRUE, error |-> o]
        ELSE with_retry(outcomes, attempt_number + 1, n, error)

\* call_openai_chat_completion: a missing client and a failure of
\* chat.completions.create both raise OpenAIAPIError
call_openai_chat_completion(outcomes, n) ==
    with_retry(outcomes, 1, n, "OpenAIAPIError")

\* config.get('max_batch_size', 32)
MAX_BATCH_SIZE == 32

infer_issued_always(batch_size, client_created) == client_created

\* client.infer is reached when the client was created and the batch is
\* not empty (lines 171-179)
infer_issued(batch_size, client_created) == client_created /\ batch_size # 0

\* call_local_llama_inference: a batch over the limit raises ValueError, a
\* failure to create the client (clients[k] is FALSE at the k-th execution)
\* or to infer (outcomes[k]) raises LocalLLMError, an empty batch returns
\* the empty list once the client is created; "outputs" is the list made
\* of the inference result
call_local_llama_inference(outcomes, clients, n, batch_size) ==
    LET body == [k \in DOMAIN outcomes |->
                    IF batch_size > MAX_BATCH_SIZE THEN "ValueError"
                    ELSE IF ~clients[k] THEN "LocalLLMError"
                    ELSE IF ~infer_issued(batch_size, clients[k]) THEN "ok"
                    ELSE outcomes[k]]
        r == with_retry(body, 1, n, "LocalLLMError")
    IN  [attempts |-> r.attempts, raised |-> r.raised, error |-> r.error,
         returned |-> IF r.raised THEN "none"
                      ELSE IF batch_size = 0 THEN "empty_list" ELSE "outputs",
         infer_requests |->
             Cardinality({k \in 1..r.attempts :
                            /\ batch_size <= MAX_BATCH_SIZE
                            /\ infer_issued(batch_size, clients[k])})]

(***************************************************************************)
(* The conversation file (conversation_manager.py, lines 32-55).           *)
(*                                                                         *)
(* The file text is a sequence of tokens: the JSON punctuation, the quote  *)
(* "\"", the backslash "\\", decimal digits, the whitespace " " and "\n",  *)
(* and the tokens of the strings.  A branch name is written as the string  *)
(* of its segments, a message as the object of its keys role, content,     *)
(* timestamp and message_id.  A parsed object is the mapping of its        *)
(* members with the order of its keys, as the dict json.load builds.       *)
(***************************************************************************)
\* the file after a save_conversations whose write succeeds
written_file(convs, keys) == [exists |-> TRUE, text |-> json_dump(convs, keys)]
NoFile == [exists |-> FALSE, text |-> <<>>]

\* the result of a parsing step: the value and the position behind it
Parsed(v, p) == [ok |-> TRUE, v |-> v, p |-> p]
JSONDecodeError == [ok |-> FALSE, v |-> <<>>, p |-> 0]

RECURSIVE skip_ws(_, _)
skip_ws(s, p) == IF p <= Len(s) /\ IsSpace(s[p]) THEN skip_ws(s, p + 1) ELSE p

\* the body of a string from position p to the closing quote: escapes are
\* decoded, a raw line break is a control character and is rejected
RECURSIVE scan_string(_, _, _)
scan_string(s, p, acc) ==
    IF p > Len(s) \/ s[p] = "\n" THEN JSONDecodeError
    ELSE IF s[p] = "\"" THEN Parsed(acc, p + 1)
    ELSE IF s[p] = "\\"
         THEN IF p + 1 > Len(s) THEN JSONDecodeError
              ELSE IF s[p + 1] \in {"\"", "\\"}
                   THEN scan_string(s, p + 2, Append(acc, s[p + 1]))
              ELSE IF s[p + 1] = "n"
                   THEN scan_string(s, p + 2, Append(acc, "\n"))
              ELSE JSONDecodeError
    ELSE scan_string(s, p + 1, Append(acc, s[p]))

IsDigit(t) == \E i \in 1..10 : Digits[i] = t
DigitValue(t) == (CHOOSE i \in 1..10 : Digits[i] = t) - 1

\* a number: "0", or a digit from 1 to 9 followed by digits
RECURSIVE scan_int(_, _, _)
scan_int(s, p, acc) ==
    IF p <= Len(s) /\ IsDigit(s[p])
    THEN scan_int(s, p + 1, 10 * acc + DigitValue(s[p]))
    ELSE Parsed(acc, p)

RECURSIVE parse_value(_, _)
RECURSIVE parse_items(_, _, _)
RECURSIVE parse_members(_, _, _)

\* a dict: the mapping of its members and the order of its keys
Dict(members, keys) == [members |-> members, keys |-> keys]

\* a JSON value at position p0: a string (its tokens), a number, an array
\* (a sequence) or an object (a dict)
parse_value(s, p0) ==
    LET p == skip_ws(s, p0)
        q == skip_ws(s, p + 1)
    IN  IF p > Len(s) THEN JSONDecodeError
        ELSE IF s[p] = "\"" THEN scan_string(s, p + 1, <<>>)
        ELSE IF s[p] = "0" THEN Parsed(0, p + 1)
        ELSE IF IsDigit(s[p]) THEN scan_int(s, p, 0)
        ELSE IF s[p] = "["
             THEN IF q <= Len(s) /\ s[q] = "]" THEN Parsed(<<>>, q + 1)
                  ELSE parse_items(s, p + 1, <<>>)
        ELSE IF s[p] = "{"
             THEN IF q <= Len(s) /\ s[q] = "}"
                  THEN Parsed(Dict(EmptyStore, <<>>), q + 1)
                  ELSE parse_members(s, p + 1, Dict(EmptyStore, <<>>))
        ELSE JSONDecodeError

\* the items of an array: value ("," value)* "]"
parse_items(s, p, acc) ==
    LET r == parse_value(s, p)
        q == skip_ws(s, r.p)
    IN  IF ~r.ok THEN JSONDecodeError
        ELSE IF q > Len(s) THEN JSONDecodeError
        ELSE IF s[q] = "," THEN parse_items(s, q + 1, Append(acc, r.v))
        ELSE IF s[q] = "]" THEN Parsed(Append(acc, r.v), q + 1)
        ELSE JSONDecodeError

\* the members of an object: string ":" value ("," string ":" value)* "}";
\* a repeated key keeps its first place and the last value
parse_members(s, p0, acc) ==
    LET p == skip_ws(s, p0)
        k == scan_string(s, p + 1, <<>>)
        c == skip_ws(s, k.p)
        r == parse_value(s, c + 1)
        q == skip_ws(s, r.p)
        acc2 == Dict([x \in DOMAIN acc.members \cup {k.v} |->
                         IF x = k.v THEN r.v ELSE acc.members[x]],
                     with_key(acc.keys, k.v))
    IN  IF p > Len(s) THEN JSONDecodeError
        ELSE IF s[p] # "\"" THEN JSONDecodeError
        ELSE IF ~k.ok THEN JSONDecodeError
        ELSE IF c > Len(s) THEN JSONDecodeError
        ELSE IF s[c] # ":" THEN JSONDecodeError
        ELSE IF ~r.ok THEN JSONDecodeError
        ELSE IF q > Len(s) THEN JSONDecodeError
        ELSE IF s[q] = "," THEN parse_members(s, q + 1, acc2)
        ELSE IF s[q] = "}" THEN Parsed(acc2, q + 1)
        ELSE JSONDecodeError

\* json.load(f): one value, and nothing but whitespace behind it
json_load(text) ==
    LET r == parse_value(text, 1)
    IN  IF ~r.ok THEN JSONDecodeError
        ELSE IF skip_ws(text, r.p) <= Len(text) THEN JSONDecodeError
        ELSE r

\* the mapping of the loaded dict: branch -> messages
as_store(v) ==
    [b \in DOMAIN v.members |->
        [i \in 1..Len(v.members[b]) |->
            LET o == v.members[b][i].members
            IN  Msg(o[<<"role">>][1], o[<<"content">>], o[<<"timestamp">>],
                    o[<<"message_id">>])]]

\* what load_conversations gives: the dict of the store after the call
\* (its mapping and the order of its keys), or the exception
Loaded(convs, keys) == [raised |-> FALSE, value |-> convs, order |-> keys]

load_conversations_reraise(convs, keys, file) ==
    IF ~file.exists THEN Loaded(convs, keys)
    ELSE LET r == json_load(file.text)
         IN  IF r.ok THEN Loaded(as_store(r.v), r.v.keys)
             ELSE [raised |-> TRUE, value |-> EmptyStore, order |-> <<>>]

\* load_conversations: the store after the call, or the exception; a
\* failure to read or to parse the file is caught and logged
load_conversations(convs, keys, file) ==
    IF ~file.exists THEN Loaded(convs, keys)
    ELSE LET r == json_load(file.text)
         IN  IF r.ok THEN Loaded(as_store(r.v), r.v.keys)
             ELSE Loaded(convs, keys)

\* ConversationManager(): the store starts empty and the file is loaded
ConversationManager(file) == load_conversations(EmptyStore, <<>>, file)

\* the contents and the branches of the messages of a saved store
FileContents == {<<>>, <<"a", "\n", "b">>, <<"\"", "x", "\"">>, <<"\\", "n">>}
SavedBranches == {Root, <<"root", "_Q0">>}

\* the dicts a process has after up to k calls of update_conversation,
\* the call number read as the clock
RECURSIVE SavedStores(_)
SavedStores(k) ==
    IF k = 0 THEN {[conversations |-> EmptyStore, key_order |-> <<>>]}
    ELSE LET S == SavedStores(k - 1)
         IN  S \cup {[conversations |->
                          update_conversation(d.conversations, MaxWindow,
                                              b, r, t, k),
                       key_order |-> with_key(d.key_order, b)] :
                        d \in S, b \in SavedBranches,
                        r \in {"system", "user"}, t \in FileContents}

\* conversation files a process can find: none, a complete snapshot, a
\* snapshot cut short by an interrupted write, or other text
TruncatedTexts ==
    UNION { {SubSeq(written_file(d.conversations, d.key_order).text, 1, n) :
                n \in 0..(Len(written_file(d.conversations,
                                            d.key_order).text) - 1)} :
              d \in SavedStores(1) }
GarbageTexts ==
    { <<"x">>,
      <<"{", "}", "{", "}">>,
      <<"{", "\"", "root", "\"", ":", "[", "]", ",", "}">>,
      <<"{", "\"", "root", "\"", ":", "[", "0", "1", "]", "}">>,
      <<"{", "\"", "a", "\n", "\"", ":", "[", "]", "}">> }
ConversationFiles ==
    {NoFile}
    \cup {written_file(d.conversations, d.key_order) : d \in SavedStores(1)}
    \cup {[exists |-> TRUE, text |-> t] : t \in TruncatedTexts \cup GarbageTexts}

BackendScripts(error) == [1..(MaxRetries + 1) -> {"ok", error}]

\* the replies handed to the parser
ResponseTexts ==
    UNION {[1..n -> {"FENCE", "python", "\n", " ", "x", "?"}] :
              n \in 0..MaxText}

\* the calls of function fn that are requested
ApiRequests(fn) ==
    CASE fn = "verify_code_with_chatgpt" ->
            {Request(fn, [raw |-> r, call_fails |-> c]) :
                r \in RawResponses, c \in BOOLEAN}
      [] fn \in {"run_lint_checks", "run_tests_on_code"} ->
            {Request(fn, [file_path |-> <<"root", "_part0.py">>,
                          returncode |-> rc]) : rc \in 0..2}
      [] fn = "call_openai_chat_completion" ->
            {Request(fn, [outcomes |-> o, max_retries |-> n]) :
                o \in BackendScripts("OpenAIAPIError"), n \in 1..MaxRetries}
      [] fn = "call_local_llama_inference" ->
            {Request(fn, [outcomes |-> o, clients |-> c, max_retries |-> n,
                          batch_size |-> z]) :
                o \in BackendScripts("LocalLLMError"),
                c \in [1..(MaxRetries + 1) -> BOOLEAN], n \in 1..MaxRetries,
                z \in {0, 1, 2, MAX_BATCH_SIZE, MAX_BATCH_SIZE + 1}}
      [] fn = "extract_questions_and_code" ->
            {Request(fn, [response_text |-> t]) : t \in ResponseTexts}
      [] fn = "save_conversations" ->
            {Request(fn, d) : d \in SavedStores(MaxSaved)}
      [] fn = "ConversationManager" ->
            {Request(fn, [file |-> f]) : f \in ConversationFiles}

ApiFunctions ==
    {"verify_code_with_chatgpt", "run_lint_checks", "run_tests_on_code",
     "call_openai_chat_completion", "call_local_llama_inference",
     "extract_questions_and_code", "save_conversations",
     "ConversationManager"}

ApiInit ==
    /\ max_len = MaxWindow
    /\ conversations = EmptyStore
    /\ key_order = <<>>
    /\ disk = absent
    /\ backup = absent
    /\ call = NoCall
    /\ ops = 0
    /\ max_depth = 0
    /\ tasks = EmptyStore
    /\ running = NoTask
    /\ files = EmptyStore
    /\ gen_calls = 0
    /\ verify_calls = 0
    /\ faults = 0
    /\ \E fn \in ApiFunctions : ext \in ApiRequests(fn)

\* the requested call is made and its result recorded
Answered(result) ==
    /\ ~ext.done
    /\ ext' = ExtCall(ext.fn, ext.task, ext.arg, result)
    /\ UNCHANGED <<store_vars, max_depth, tasks, running, files, gen_calls,
                   verify_calls, faults>>

ApiVerify ==
    /\ ext.fn = "verify_code_with_chatgpt"
    /\ Answered(verify_code_with_chatgpt(ext.arg.raw, ext.arg.call_fails))

ApiLint ==
    /\ ext.fn = "run_lint_checks"
    /\ Answered(run_lint_checks(ext.arg.returncode))

ApiTests ==
    /\ ext.fn = "run_tests_on_code"
    /\ Answered(run_tests_on_code(ext.arg.returncode))

ApiOpenAI ==
    /\ ext.fn = "call_openai_chat_completion"
    /\ Answered(call_openai_chat_completion(ext.arg.outcomes, ext.arg.max_retries))

ApiLocal ==
    /\ ext.fn = "call_local_llama_inference"
    /\ Answered(call_local_llama_inference(ext.arg.outcomes,
                                           ext.arg.clients,
                                           ext.arg.max_retries,
                                           ext.arg.batch_size))

ApiExtract ==
    /\ ext.fn = "extract_questions_and_code"
    /\ Answered(extract_questions_and_code(ext.arg.response_text))

\* save_conversations in a directory without a conversation file, the
\* write having outcome io, then ConversationManager() in a fresh process
ApiSave(io) ==
    /\ ext.fn = "save_conversations"
    /\ LET whole == written_file(ext.arg.conversations, ext.arg.key_order)
           file == IF ~io.opened THEN NoFile
                   ELSE IF io.complete THEN whole
                   ELSE [exists |-> TRUE,
                         text |-> written_part(whole.text, io)]
       IN  Answered([saved |-> io.complete, file |-> file,
                     reloaded |-> ConversationManager(file)])

ApiConstruct ==
    /\ ext.fn = "ConversationManager"
    /\ Answered(ConversationManager(ext.arg.file))

ApiNext ==
    \/ ApiVerify \/ ApiLint \/ ApiTests \/ ApiOpenAI \/ ApiLocal
    \/ ApiExtract \/ ApiConstruct
    \/ \E io \in SaveOutcomes : ApiSave(io)

ApiSpec == ApiInit /\ [][ApiNext]_vars


(***************************************************************************)
(* Claims.                                                                 *)
(***************************************************************************)
IsAppendStep == call'.op = "append" /\ ops' = ops + 1

\* C1 (as claimed): after any append the branch holds at most max_len
\* messages, and when the window truncated, element 0 is the element 0 of
\* the list before truncation.
C1_WindowInvariant ==
    [][IsAppendStep =>
          LET b == call'.branch
              pre == get_conversation(conversations, b)
              post == conversations'[b]
          IN  /\ Len(post) <= max_len
              /\ Len(pre) + 1 > max_len => post[1] = pre[1]]_vars

\* C2 (as claimed): an append with a role outside {system, user, assistant}
\* or with empty content leaves the store and the snapshot unchanged.
C2_InvalidRejected ==
    [][(IsAppendStep /\ ~validate_message(call'.role, call'.content)) =>
          (conversations' = conversations /\ disk' = disk)]_vars

\* C3: an entry into recursive_prompt with depth > max_depth returns at
\* once: no generation call, no append, store and snapshot unchanged.
C3_DepthBound ==
    [][\A t \in DOMAIN tasks :
          (/\ tasks[t].pc = "rp_entry"
           /\ tasks'[t].entered = tasks[t].entered + 1
           /\ tasks[t].depth > max_depth) =>
              /\ tasks'[t].pc = "done"
              /\ gen_calls' = gen_calls
              /\ verify_calls' = verify_calls
              /\ conversations' = conversations
              /\ disk' = disk]_vars

C3_Witness ==
    /\ tasks[Root].pc = "done"
    /\ tasks[Root].entered = 1
    /\ tasks[Root].depth = max_depth + 1
    /\ gen_calls = 0

\* C4 (as claimed): the answer to a question raised by a turn on branch B
\* is appended to B itself.
C4_AnswerOnSameBranch ==
    (call.op = "append" /\ call.src = "answer") => call.branch = call.turn

\* C5 (as claimed): at most one input() request is outstanding, and a
\* question is put to the human only after the recursion of every earlier
\* question of the same turn has finished.
C5_SequentialQuestions ==
    /\ Cardinality({t \in DOMAIN tasks : tasks[t].pc = "hq_wait_input"}) <= 1
    /\ \A c1, c2 \in DOMAIN tasks :
          (/\ tasks[c1].parent = tasks[c2].parent
           /\ tasks[c1].parent # NoTask
           /\ tasks[c1].qidx < tasks[c2].qidx
           /\ tasks[c2].asked > 0) => tasks[c1].pc = "done"

\* C6 (as claimed): a block whose verdict is absent or present but empty
\* is refined with the default no-feedback text, not skipped.
C6_AbsentVerdictRefined ==
    \A t \in DOMAIN tasks : \A e \in Range(tasks[t].plog) :
        IsFalsyVerdict(e.verdict) =>
            (e.act = "refine" /\ e.feedback = NoFeedback)

\* C7: a block whose verdict is present with complete = false gets no part
\* file and exactly one refinement, called with the verdict's feedback (the
\* default text when it has none) and finished before the loop moves on.
C7_IncompleteRefinedOnce ==
    \A t \in DOMAIN tasks : \A j \in 1..Len(tasks[t].plog) :
        LET e == tasks[t].plog[j]
            mine == {r \in 1..Len(tasks[t].refines) :
                        tasks[t].refines[r].idx = e.idx}
        IN  (~e.verdict.none /\ e.verdict.complete = "false") =>
              /\ e.act = "refine"
              /\ e.feedback = IF e.verdict.feedback = "missing"
                              THEN "No feedback provided."
                              ELSE e.verdict.feedback
              /\ file_name(t, "_part", e.idx) \notin DOMAIN files
              /\ Cardinality(mine) = 1
              /\ \A r \in mine :
                    /\ tasks[t].refines[r].feedback = e.feedback
                    /\ tasks[t].refines[r].code = tasks[t].code_blocks[e.idx]
              /\ tasks[t].pc \in {"rf_generate", "rf_verify"} =>
                    (j = Len(tasks[t].plog) => tasks[t].i = e.idx)
              /\ j < Len(tasks[t].plog) => tasks[t].i > e.idx

C7_Witness ==
    \E j \in 1..Len(tasks[Root].plog) :
        /\ tasks[Root].plog[j].verdict.complete = "false"
        /\ tasks[Root].plog[j].verdict.feedback = "fb"
        /\ tasks[Root].plog[j].act = "refine"
        /\ tasks[Root].pc = "rp_process"
        /\ tasks[Root].i > tasks[Root].plog[j].idx

RunEnded == tasks[Root].pc \in {"done", "failed"}

\* C8 (as claimed): when the run has ended, every question of every turn at
\* depth < max_depth was put to the human exactly once and its answer
\* started exactly one recursive_prompt at depth + 1; and a run with one
\* question, no code and a question-free second reply made exactly two
\* generation calls.
C8_OncePerQuestion ==
    RunEnded =>
      /\ \A t \in DOMAIN tasks :
            tasks[t].depth < max_depth =>
               \A k \in 1..Len(tasks[t].questions) :
                  LET c == child_branch(t, k)
                  IN  /\ c \in DOMAIN tasks
                      /\ tasks[c].asked = 1
                      /\ tasks[c].entered = 1
                      /\ tasks[c].depth = tasks[t].depth + 1
      /\ (/\ tasks[Root].depth < max_depth
          /\ Len(tasks[Root].questions) = 1
          /\ tasks[Root].code_blocks = <<>>
          /\ child_branch(Root, 1) \in DOMAIN tasks
          /\ tasks[child_branch(Root, 1)].replied
          /\ tasks[child_branch(Root, 1)].questions = <<>>) =>
             gen_calls = 2

\* C9 (as claimed, for a window that holds three messages): a turn on a
\* branch holding exactly one system message, with a reply without
\* questions whose code blocks are all verified complete, ends with the
\* three messages system, user, assistant in the branch, one verification
\* call and one part file per code block, and no refinement.
C9_BasicFlow ==
    LET f == tasks[Root]
        n == Len(f.code_blocks)
    IN  (/\ max_len >= 3
         /\ f.pc \in {"done", "failed"}
         /\ f.replied
         /\ Len(f.hist0) = 1
         /\ f.hist0[1].role = "system"
         /\ f.questions = <<>>
         /\ n >= 1
         /\ Len(f.results) = n
         /\ \A k \in 1..n : ~f.results[k].none /\ f.results[k].complete = "true") =>
            /\ Len(conversations[Root]) = 3
            /\ conversations[Root][2].role = "user"
            /\ conversations[Root][3].role = "assistant"
            /\ verify_calls = n
            /\ \A k \in 1..n : file_name(Root, "_part", k) \in DOMAIN files
            /\ f.refines = <<>>

\* C10: one verification task per code block; whatever the completion
\* order, the verdict used for block i is the one its own task returned,
\* and the blocks are processed in increasing index order.
C10_VerdictsInIndexOrder ==
    \A t \in DOMAIN tasks :
        LET f == tasks[t]
            n == Len(f.code_blocks)
        IN  /\ Len(f.vdone) <= n
            /\ \A a, b \in 1..Len(f.vdone) :
                  (f.vdone[a].idx = f.vdone[b].idx) => a = b
            /\ \A a \in 1..Len(f.vdone) :
                  f.vdone[a].idx \in 1..n /\ f.vdone[a].verdict.blk = f.vdone[a].idx
            /\ f.results # <<>> => Len(f.results) = n /\ Len(f.vdone) = n
            /\ \A j \in 1..Len(f.plog) :
                  /\ f.plog[j].idx = j
                  /\ f.plog[j].verdict.blk = j
                  /\ \E a \in 1..Len(f.vdone) :
                        /\ f.vdone[a].idx = j
                        /\ f.vdone[a].verdict = f.plog[j].verdict

C10_Witness ==
    /\ Len(tasks[Root].vdone) = 2
    /\ tasks[Root].vdone[1].idx = 2
    /\ tasks[Root].vdone[1].verdict.complete # tasks[Root].vdone[2].verdict.complete
    /\ Len(tasks[Root].plog) = 2

\* C11: when call_model returns an empty or whitespace-only reply the turn
\* returns in that step: no append (the branch holds the history at entry
\* plus the user prompt, and nothing else changed in the store or on disk),
\* no verification call, no file, no question task.
C11_EmptyReplyReturns ==
    [][\A t \in DOMAIN tasks :
          (/\ tasks[t].pc = "rp_generate"
           /\ ~tasks[t].replied
           /\ tasks'[t].replied
           /\ \A k \in 1..Len(tasks'[t].reply.text) :
                 tasks'[t].reply.text[k] \in {" ", "\n"}) =>
              /\ tasks'[t].pc = "done"
              /\ conversations' = conversations
              /\ disk' = disk
              /\ conversations[t] =
                    slide_conversation_window(
                        Append(tasks[t].hist0,
                               Msg("user", tasks[t].prompt, isoformat(ops),
                                   Len(tasks[t].hist0) + 1)),
                        max_len)
              /\ verify_calls' = verify_calls
              /\ files' = files
              /\ DOMAIN tasks' = DOMAIN tasks
              /\ tasks'[t].vdone = <<>>
              /\ tasks'[t].questions = <<>>
              /\ tasks'[t].code_blocks = <<>>]_vars

C11_Witness ==
    /\ tasks[Root].pc = "done"
    /\ tasks[Root].replied
    /\ tasks[Root].reply.text = <<" ">>
    /\ gen_calls = 1
    /\ verify_calls = 0
    /\ files = EmptyStore

\* number of call_model calls recorded in the frame of task t: the one of
\* its turn and those of its refinements
GenBy(t) ==
    LET f == tasks[t]
        own == IF f.replied \/ f.reply.raised THEN 1 ELSE 0
        S[r \in 0..Len(f.refines)] ==
            IF r = 0 THEN 0 ELSE S[r - 1] + f.refines[r].gen
    IN  own + S[Len(f.refines)]

RECURSIVE TotalGen(_)
TotalGen(T) ==
    IF T = {} THEN 0
    ELSE LET t == CHOOSE x \in T : TRUE IN GenBy(t) + TotalGen(T \ {t})

\* C12: every refinement makes one call_model call (made as soon as it has
\* left its generation step) and at most one verification call, made after
\* the generation; no code block is refined twice, whatever the outcome of
\* the re-verification; and the global count of generation calls is the
\* sum of one per turn and one per refinement.
C12_RefineSinglePass ==
    /\ gen_calls = TotalGen(DOMAIN tasks)
    /\ \A t \in DOMAIN tasks :
          LET f == tasks[t]
              n == Len(f.refines)
          IN  \A r \in 1..n :
                 LET e == f.refines[r]
                 IN  /\ e.gen <= 1
                     /\ e.ver <= 1
                     /\ e.ver = 1 => e.gen = 1
                     /\ (r < n \/ f.pc # "rf_generate") => e.gen = 1
                     /\ (r < n \/ f.pc \notin {"rf_generate", "rf_verify"}) =>
                            (f.pc = "failed" \/ f.i > e.idx)
                     /\ \A r2 \in 1..n : f.refines[r2].idx = e.idx => r2 = r

C12_Witness ==
    /\ tasks[Root].pc = "done"
    /\ Len(tasks[Root].refines) = 1
    /\ tasks[Root].refines[1].gen = 1
    /\ tasks[Root].refines[1].ver = 1
    /\ file_name(Root, "_refined_", tasks[Root].refines[1].idx) \notin DOMAIN files
    /\ gen_calls = 2

\* the text holds a fenced code block: two fences
HasCodeBlock(text) ==
    \E a, b \in 1..Len(text) : a < b /\ text[a] = "FENCE" /\ text[b] = "FENCE"

\* C13 (as claimed): the step of a refinement that verifies the improved
\* snippet (the first code block of the reply) leaves the file
\* {branch}_refined_{index} holding that snippet and runs the lint check
\* exactly when the verdict is present with complete = true; otherwise it
\* writes nothing, runs no check and returns.  The generation step of a
\* refinement writes no file and runs no check, and goes on to the
\* verification exactly when the reply holds a code block.  No other step
\* writes a refined file.
C13_RefinedFileIffPositive ==
    [][/\ \A t \in DOMAIN tasks :
             LET f == tasks[t]
                 g == tasks'[t]
                 name == [branch |-> t, kind |-> "_refined_", index |-> f.i - 1]
                 n == Len(f.refines)
             IN  /\ (f.pc = "rf_verify" /\ g.pc # "rf_verify") =>
                       LET v == ext'.result
                           positive == ~v.none /\ v.complete = "true"
                       IN  /\ ext'.fn = "verify_code_with_chatgpt"
                           /\ ext'.task = t
                           /\ ext'.arg = f.improved
                           /\ positive =>
                                 /\ name \in DOMAIN files'
                                 /\ files'[name] = f.improved
                                 /\ g.refines[n].lint = 1
                           /\ ~positive =>
                                 /\ files' = files
                                 /\ g.refines[n].lint = 0
                                 /\ g.pc = "rp_process"
                 /\ (f.pc = "rf_generate" /\ g.pc # "rf_generate") =>
                       /\ files' = files
                       /\ g.refines[n].lint = 0
                       /\ g.refines[n].ver = 0
                       /\ g.pc \in {"failed", "rp_process", "rf_verify"}
                       /\ g.pc # "failed" =>
                             LET h == conversations'[t]
                                 reply == h[Len(h)].content
                             IN  /\ HasCodeBlock(reply) <=> g.pc = "rf_verify"
                                 /\ g.pc = "rf_verify" =>
                                       g.improved =
                                          extract_questions_and_code(reply).code_blocks[1]
       /\ \A name \in DOMAIN files' \ DOMAIN files :
             name.kind = "_refined_" =>
                /\ tasks[name.branch].pc = "rf_verify"
                /\ tasks[name.branch].i = name.index + 1]_vars

\* the text part is less than the text whole, of which it is the beginning
CutShort(part, whole) ==
    /\ Len(part) < Len(whole) \/ whole = <<>>
    /\ part = SubSeq(whole, 1, Len(part))

\* C13 (amended): the step of a refinement that verifies the improved
\* snippet (the first code block of the reply) calls save_code_locally
\* for {branch}_refined_{index} and runs the lint check exactly when the
\* verdict is present with complete = true.  When the write succeeds the
\* file holds that snippet; when it fails the failure is swallowed, the
\* file is absent as before (open failed) or holds less than the snippet
\* (the write failed), no other file changes, and the lint check is run
\* all the same.  With another verdict the step writes nothing, no write
\* fails, it runs no check and returns.  The generation step of a
\* refinement writes no file and runs no check, and goes on to the
\* verification exactly when the reply holds a code block.  No other step
\* writes a refined file.
C13_RefinedFileSavedIffPositive ==
    [][/\ \A t \in DOMAIN tasks :
             LET f == tasks[t]
                 g == tasks'[t]
                 name == [branch |-> t, kind |-> "_refined_", index |-> f.i - 1]
                 n == Len(f.refines)
             IN  /\ (f.pc = "rf_verify" /\ g.pc # "rf_verify") =>
                       LET v == ext'.result
                           positive == ~v.none /\ v.complete = "true"
                       IN  /\ ext'.fn = "verify_code_with_chatgpt"
                           /\ ext'.task = t
                           /\ ext'.arg = f.improved
                           /\ positive =>
                                 /\ g.refines[n].lint = 1
                                 /\ faults' = 0 =>
                                       /\ name \in DOMAIN files'
                                       /\ files'[name] = f.improved
                                 /\ faults' # 0 =>
                                       \/ files' = files
                                       \/ /\ name \in DOMAIN files'
                                          /\ CutShort(files'[name], f.improved)
                                 /\ \A other \in DOMAIN files' \ {name} :
                                       /\ other \in DOMAIN files
                                       /\ files'[other] = files[other]
                           /\ ~positive =>
                                 /\ files' = files
                                 /\ faults' = faults
                                 /\ g.refines[n].lint = 0
                                 /\ g.pc = "rp_process"
                 /\ (f.pc = "rf_generate" /\ g.pc # "rf_generate") =>
                       /\ files' = files
                       /\ g.refines[n].lint = 0
                       /\ g.refines[n].ver = 0
                       /\ g.pc \in {"failed", "rp_process", "rf_verify"}
                       /\ g.pc # "failed" =>
                             LET h == conversations'[t]
                                 reply == h[Len(h)].content
                             IN  /\ HasCodeBlock(reply) <=> g.pc = "rf_verify"
                                 /\ g.pc = "rf_verify" =>
                                       g.improved =
                                          extract_questions_and_code(reply).code_blocks[1]
       /\ \A name \in DOMAIN files' \ DOMAIN files :
             name.kind = "_refined_" =>
                /\ tasks[name.branch].pc = "rf_verify"
                /\ tasks[name.branch].i = name.index + 1]_vars

\* a refinement got a positive verdict for its improved snippet, its
\* write succeeded, the file holds the snippet and the lint check was run
C13_Witness ==
    /\ ext.fn = "verify_code_with_chatgpt"
    /\ ext.task = Root
    /\ ext.result.complete = "true"
    /\ Len(tasks[Root].refines) = 1
    /\ tasks[Root].refines[1].lint = 1
    /\ \E k \in 1..2 :
          /\ DOMAIN files = {file_name(Root, "_refined_", k)}
          /\ files[file_name(Root, "_refined_", k)] = <<"z">>

\* the text holds a brace-delimited region: a "{" with a "}" after it
HasBraceRegion(raw) ==
    \E a, b \in 1..Len(raw) : a < b /\ raw[a] = "{" /\ raw[b] = "}"

\* C14: verify_code_with_chatgpt returns None (it does not raise) when the
\* model call fails, when the response is empty or blank, when it holds
\* no brace-delimited region, and when the region does not parse.
C14_VerifierNonCrash ==
    (ext.fn = "verify_code_with_chatgpt" /\ ext.done) =>
        /\ ~ext.result.raised
        /\ (\/ ext.arg.call_fails
            \/ \A k \in 1..Len(ext.arg.raw) : ext.arg.raw[k] = " "
            \/ ~HasBraceRegion(ext.arg.raw)
            \/ json_loads(json_match(ext.arg.raw)).raised) =>
              ext.result.value.none

C14_Witness ==
    /\ ext.fn = "verify_code_with_chatgpt"
    /\ ext.done
    /\ ~ext.arg.call_fails
    /\ ext.arg.raw = <<"{", "complete:true", ",", "}">>
    /\ ext.result = Gave(NoneVerdict)

\* the first brace-delimited region of the text: from the first "{" to
\* the first "}" that follows it
FirstRegion(raw) ==
    LET open == FirstIndex(raw, "{", 1)
        close == IF open = 0 THEN 0 ELSE FirstIndex(raw, "}", open + 1)
    IN  IF open = 0 \/ close = 0 THEN <<>> ELSE SubSeq(raw, open, close)

\* the text after the first region holds a brace
BraceAfterFirstRegion(raw) ==
    LET open == FirstIndex(raw, "{", 1)
        close == FirstIndex(raw, "}", open + 1)
    IN  \E k \in (close + 1)..Len(raw) : raw[k] \in {"{", "}"}

\* C15 (as claimed): when the response holds a valid verdict object
\* followed by further text with braces in it, the verdict returned is
\* that first object.
C15_FirstRegionParsed ==
    (/\ ext.fn = "verify_code_with_chatgpt"
     /\ ext.done
     /\ ~ext.arg.call_fails
     /\ FirstRegion(ext.arg.raw) # <<>>
     /\ ~json_loads(FirstRegion(ext.arg.raw)).raised
     /\ BraceAfterFirstRegion(ext.arg.raw)) =>
        ext.result = json_loads(FirstRegion(ext.arg.raw))

\* C16 (as claimed): the step of the loop that persists a part file and
\* runs the checks ends without an exception, whatever the checks report:
\* the file is on disk, no refinement starts and the loop goes on with the
\* next block.
C16_CheckFailureContained ==
    [][\A t \in DOMAIN tasks :
          (/\ tasks[t].pc = "rp_process"
           /\ Len(tasks'[t].plog) = Len(tasks[t].plog) + 1
           /\ tasks'[t].plog[Len(tasks'[t].plog)].act = "save") =>
              /\ file_name(t, "_part", tasks[t].i) \in DOMAIN files'
              /\ tasks'[t].refines = tasks[t].refines
              /\ tasks'[t].pc = "rp_process"
              /\ tasks'[t].i = tasks[t].i + 1]_vars

\* C17 (as claimed): run_lint_checks and run_tests_on_code return True
\* when the command exits with code 0 and False otherwise, and never raise.
C17_ChecksReturnBoolean ==
    (ext.fn \in {"run_lint_checks", "run_tests_on_code"} /\ ext.done) =>
        ext.result = IF ext.arg.returncode = 0 THEN "True" ELSE "False"

\* position of the first "ok" among the first n outcomes, 0 when none
FirstOk(outcomes, n) ==
    IF \E k \in 1..n : outcomes[k] = "ok"
    THEN CHOOSE k \in 1..n : outcomes[k] = "ok" /\ \A j \in 1..(k - 1) : outcomes[j] # "ok"
    ELSE 0

\* C19: a backend call (batch within the limit) is executed at most
\* MAX_RETRIES times; it returns at the first execution that succeeds, and
\* when the first MAX_RETRIES executions all fail it raises the backend
\* error after exactly MAX_RETRIES executions.
C19_BoundedRetries ==
    (/\ ext.fn \in {"call_openai_chat_completion", "call_local_llama_inference"}
     /\ ext.done
     /\ (ext.fn = "call_local_llama_inference" =>
            ext.arg.batch_size <= MAX_BATCH_SIZE)) =>
        LET n == ext.arg.max_retries
            executions ==
                IF ext.fn = "call_openai_chat_completion"
                THEN ext.arg.outcomes
                ELSE [j \in DOMAIN ext.arg.outcomes |->
                        IF /\ ext.arg.clients[j]
                           /\ (ext.arg.batch_size = 0
                                  \/ ext.arg.outcomes[j] = "ok")
                        THEN "ok" ELSE "LocalLLMError"]
            k == FirstOk(executions, n)
            error == IF ext.fn = "call_openai_chat_completion"
                     THEN "OpenAIAPIError" ELSE "LocalLLMError"
        IN  /\ ext.result.attempts \in 1..n
            /\ k # 0 => /\ ext.result.attempts = k
                        /\ ~ext.result.raised
                        /\ ext.result.error = "none"
            /\ k = 0 => /\ ext.result.attempts = n
                        /\ ext.result.raised
                        /\ ext.result.error = error

C19_Witness ==
    /\ ext.fn = "call_openai_chat_completion"
    /\ ext.done
    /\ ext.arg.max_retries = 2
    /\ ext.arg.outcomes[1] = "OpenAIAPIError"
    /\ ext.arg.outcomes[2] = "OpenAIAPIError"
    /\ ext.arg.outcomes[3] = "ok"
    /\ ext.result = [attempts |-> 2, raised |-> TRUE, error |-> "OpenAIAPIError"]

\* the turn of task t ended at its generation call: the task has failed
\* and did nothing after the append of its user prompt; its branch is the
\* history at entry plus that prompt, it dispatched no verification,
\* processed no block, started no refinement and no question task, wrote
\* no file
EndedAtGeneration(t) ==
    LET f == tasks[t]
    IN  /\ f.pc = "failed"
        /\ ~f.replied
        /\ \E now \in 1..ops :
              conversations[t] =
                  slide_conversation_window(
                      Append(f.hist0,
                             Msg("user", f.prompt, isoformat(now),
                                 Len(f.hist0) + 1)),
                      max_len)
        /\ conversations[t][Len(conversations[t])].role = "user"
        /\ f.code_blocks = <<>> /\ f.vdone = <<>> /\ f.plog = <<>>
        /\ f.refines = <<>> /\ f.questions = <<>>
        /\ \A c \in DOMAIN tasks : tasks[c].parent # t
        /\ \A name \in DOMAIN files : name.branch # t

\* C18 (as claimed): a turn whose call_model raised has ended with the
\* exception and did nothing after the append of its user prompt; and the
\* conversation file holds exactly the in-memory store.
C18_GenerationFailureEndsTurn ==
    \A t \in DOMAIN tasks :
        tasks[t].reply.raised =>
            /\ EndedAtGeneration(t)
            /\ disk = dumped(conversations, key_order)

\* C18 (amended): a turn whose call_model raised has ended with the
\* exception and did nothing after the append of its user prompt; the
\* step in which the call raises changes neither the store nor the
\* conversation file, which are as the append of the user prompt left
\* them.  After that append the file holds exactly the in-memory store
\* when its save succeeded; when the save failed the failure is swallowed
\* and the turn goes on to the generation call with a file that is as it
\* was before the append (open failed) or holds less than the dump of the
\* store (the write failed).
C18_GenerationFailureKeepsLastSave ==
    [][\A t \in DOMAIN tasks :
          /\ tasks'[t].reply.raised => EndedAtGeneration(t)'
          /\ (~tasks[t].reply.raised /\ tasks'[t].reply.raised) =>
                /\ tasks[t].pc = "rp_generate"
                /\ call = Called("append", t, "user", tasks[t].prompt,
                                 "prompt", t)
                /\ conversations' = conversations
                /\ key_order' = key_order
                /\ disk' = disk
                /\ faults' = faults
          /\ (tasks[t].pc = "rp_entry" /\ tasks'[t].pc = "rp_generate") =>
                /\ faults' = 0 =>
                      disk' = dumped(conversations', key_order')
                /\ faults' # 0 =>
                      \/ disk' = disk
                      \/ /\ disk'.exists /\ ~disk'.whole
                         /\ CutShort(disk'.text,
                                     json_dump(conversations', key_order'))]_vars

\* the follow-up turn of a question ended at its generation call, the
\* exception ended the root turn, and the file holds the in-memory store
C18_Witness ==
    /\ child_branch(Root, 1) \in DOMAIN tasks
    /\ tasks[child_branch(Root, 1)].reply.raised
    /\ tasks[child_branch(Root, 1)].pc = "failed"
    /\ tasks[Root].pc = "failed"
    /\ gen_calls = 2
    /\ disk = dumped(conversations, key_order)

\* The run under fairness.  The run starts from a loaded conversation
\* file with the largest window, and the root prompt is not empty.
LiveInit == OrchInit /\ max_len = MaxWindow /\ disk.exists

LiveNext ==
    \/ \E io \in RunOutcomes : Main(io)
    \/ MainPrompt(<<"build">>)
    \/ MainInputFails
    \/ DirectCall(max_depth + 1)
    \/ \E t \in At("rp_entry"), io \in RunOutcomes : RpEntry(t, io)
    \/ \E t \in At("rp_generate"), io \in RunOutcomes :
           \E out \in ModelOutcomes(t = Root) : RpGenerate(t, out, io)
    \/ \E t \in DOMAIN tasks, k \in 1..3, v \in Verdicts :
           VerifyReturns(t, k, v)
    \/ \E t \in At("rp_wait_verify") : RpGathered(t)
    \/ \E t \in At("rp_process"), io \in RunOutcomes :
           RpProcessBlock(t, 0, 0, io)
    \/ \E t \in At("rf_generate"), out \in RefineOutcomes,
          io \in RunOutcomes : RfGenerate(t, out, io)
    \/ \E t \in At("rf_verify"), v \in Verdicts, io \in RunOutcomes :
           RfVerify(t, v, 0, 0, io)
    \/ \E t \in At("rp_process") : RpQuestions(t)
    \/ \E t \in At("hq_entry") : HqEntry(t)
    \/ \E t \in At("hq_wait_input"), a \in Answers, io \in RunOutcomes :
           HqResume(t, a, io)
    \/ \E t \in At("hq_wait_input") : HqInputFails(t)
    \/ \E t \in At("rp_wait_questions") : RpQuestionsDone(t)
    \/ \E t \in At("rp_wait_questions") : RpChildFailed(t)
    \/ RunCancelsTasks

\* Every external call that a pending task awaits returns, so a step of
\* the event loop that can be taken is taken.  The verification of a task
\* that asyncio.run has cancelled is not among these steps: gather has
\* cancelled the futures of run_in_executor (lines 260-268), and a call no
\* worker thread has started is dropped, so it may return or never be made
FairSpec ==
    /\ LiveInit
    /\ [][LiveNext]_vars
    /\ WF_vars(LiveNext /\ \A t \in DOMAIN tasks :
                              CancelledVerifying(t) =>
                                  tasks'[t].vdone = tasks[t].vdone)

\* a turn that called the model: it got a reply or the call raised
Generated(t) == tasks[t].replied \/ tasks[t].reply.raised

\* C20: the run ends, and every turn that calls the model has a depth of
\* at most max_depth, one more than its parent's: a chain of nested
\* invocations started at depth 0 holds at most max_depth + 1 generating
\* turns.
C20_Terminates ==
    /\ <>Ended(tasks[Root].pc)
    /\ [](\A t \in DOMAIN tasks :
            /\ Generated(t) => tasks[t].depth <= max_depth
            /\ tasks[t].parent # NoTask =>
                  /\ tasks[t].depth = tasks[tasks[t].parent].depth + 1
                  /\ t = Append(tasks[t].parent, QName[tasks[t].qidx])
            /\ (Generated(t) /\ tasks[Root].depth = 0) =>
                  Len(t) <= max_depth + 1)

C20_Witness ==
    /\ tasks[Root].pc = "done"
    /\ tasks[Root].depth = 0
    /\ max_depth = MaxDepth
    /\ \E t \in DOMAIN tasks :
          /\ Len(t) = max_depth + 1
          /\ tasks[t].replied
          /\ tasks[t].questions # <<>>
          /\ \A c \in Children(t) : tasks[c].pc = "done" /\ tasks[c].asked = 0

\* C21 (as claimed): when an append makes the branch longer than max_len,
\* the stored branch is the old element 0 followed by the last max_len - 1
\* messages of the appended list, in their order; when the appended list is
\* not longer than max_len, it is stored whole.
C21_SlidingWindow ==
    [][IsAppendStep =>
          LET b == call'.branch
              pre == get_conversation(conversations, b)
              full == Append(pre, Msg(call'.role, call'.content,
                                      isoformat(ops'), Len(pre) + 1))
              n == Len(full)
              post == conversations'[b]
          IN  IF n > max_len
              THEN post = <<full[1]>> \o
                          [k \in 1..(max_len - 1) |-> full[n - (max_len - 1) + k]]
              ELSE post = full]_vars

\* C22: a mutating store operation that returns and whose file write
\* succeeds (an append, a delete of an existing branch, a clear of an
\* existing branch) leaves a snapshot equal to the whole in-memory store,
\* the appended branch as it is after truncation.
C22_SnapshotAfterMutation ==
    [][( /\ ops' = ops + 1
         /\ \/ /\ call'.op = "append"
               /\ StoreAppend(call'.branch, call'.role, call'.content, Saved)
            \/ /\ call'.op = "delete"
               /\ call'.branch \in DOMAIN conversations
               /\ StoreDelete(call'.branch, Saved)
            \/ /\ call'.op = "clear"
               /\ call'.branch \in DOMAIN conversations
               /\ StoreClear(call'.branch, Saved) )
          => disk' = dumped(conversations', key_order')]_vars

\* an append that truncated the branch (the id of the last message is
\* larger than the length) and whose snapshot is the truncated store
C22_Witness ==
    /\ call.op = "append"
    /\ max_len >= 2
    /\ LET h == conversations[call.branch]
       IN  Len(h) = max_len /\ h[Len(h)].message_id > Len(h)
    /\ disk = dumped(conversations, key_order)

C24_LoadNeverRaises ==
    (ext.fn = "ConversationManager" /\ ext.done) =>
        /\ ~ext.result.raised
        /\ ~ext.arg.file.exists => ext.result.value = EmptyStore
        /\ ( /\ ext.arg.file.exists
             /\ ext.arg.file.text \in TruncatedTexts \cup GarbageTexts )
           => ext.result.value = EmptyStore

\* a snapshot cut in the middle of a message was found and the store
\* was constructed empty
C24_Witness ==
    /\ ext.fn = "ConversationManager"
    /\ ext.done
    /\ ext.arg.file.exists
    /\ ext.arg.file.text \in TruncatedTexts
    /\ Len(ext.arg.file.text) > 20
    /\ ext.result = Loaded(EmptyStore, <<>>)

\* C25: get_conversation for a branch that is not in the store returns
\* the empty list and changes nothing: the branch is not created, the set
\* of branch names, the messages and the snapshot are as before.
C25_GetUnknownBranch ==
    [][(call'.op = "get" /\ ops' = ops + 1
           /\ call'.branch \notin DOMAIN conversations) =>
          /\ call'.content = <<>>
          /\ DOMAIN conversations' = DOMAIN conversations
          /\ conversations' = conversations
          /\ disk' = disk]_vars

\* a get of a branch the store does not hold, next to a branch it holds
C25_Witness ==
    /\ call.op = "get"
    /\ call.branch \notin DOMAIN conversations
    /\ call.content = <<>>
    /\ conversations # EmptyStore
    /\ disk.exists

\* the positions of the tokens tok of a text, and the n-th of them
PositionsOf(text, tok) == {i \in 1..Len(text) : text[i] = tok}
NthOf(text, tok, n) ==
    CHOOSE i \in PositionsOf(text, tok) :
        Cardinality({j \in PositionsOf(text, tok) : j < i}) = n - 1

\* the text without its leading and trailing whitespace
Trimmed(s) ==
    LET ink == {i \in 1..Len(s) : ~IsSpace(s[i])}
    IN  IF ink = {} THEN <<>>
        ELSE SubSeq(s, CHOOSE i \in ink : \A j \in ink : i <= j,
                       CHOOSE i \in ink : \A j \in ink : i >= j)

\* the k-th fenced region: the text between the fences 2k-1 and 2k
FencedRegion(text, k) ==
    SubSeq(text, NthOf(text, "FENCE", 2 * k - 1) + 1,
                 NthOf(text, "FENCE", 2 * k) - 1)

\* the inner text of a region: the language tag on the line of the
\* opening fence is not part of it
InnerText(region) ==
    Trimmed(IF Len(region) >= 2 /\ region[1] = "python" /\ region[2] = "\n"
            THEN Tail(region) ELSE region)

\* C26 (as claimed): the code blocks are the fenced regions in order of
\* appearance, each without its fences, without the language tag after the
\* opening fence and without surrounding whitespace.
C26_CodeBlocksAreInnerTexts ==
    (ext.fn = "extract_questions_and_code" /\ ext.done) =>
        LET text == ext.arg.response_text
            n == Cardinality(PositionsOf(text, "FENCE")) \div 2
        IN  ext.result.code_blocks =
                [k \in 1..n |-> InnerText(FencedRegion(text, k))]

\* the k-th line of a text: the tokens between the line breaks k-1 and k
LineOf(text, k) ==
    LET n == Cardinality(PositionsOf(text, "\n"))
        from == IF k = 1 THEN 1 ELSE NthOf(text, "\n", k - 1) + 1
        to == IF k = n + 1 THEN Len(text) ELSE NthOf(text, "\n", k) - 1
    IN  SubSeq(text, from, to)

IsQuestion(line) == line # <<>> /\ line[Len(line)] = "?"

\* C27: the questions are the lines that end in "?" once trimmed, each
\* trimmed, in order of appearance, a repeated line repeated; a text with
\* no such line gives no question.
C27_QuestionsAreTrimmedLines ==
    (ext.fn = "extract_questions_and_code" /\ ext.done) =>
        LET text == ext.arg.response_text
            n == Cardinality(PositionsOf(text, "\n")) + 1
            lines == [k \in 1..n |-> Trimmed(LineOf(text, k))]
        IN  /\ ext.result.questions = SelectSeq(lines, IsQuestion)
            /\ (\A k \in 1..n : ~IsQuestion(lines[k])) =>
                   ext.result.questions = <<>>

\* the same question on two lines, the second with whitespace around it
C27_Witness ==
    /\ ext.fn = "extract_questions_and_code"
    /\ ext.done
    /\ ext.arg.response_text = <<"?", "\n", " ", "?", " ">>
    /\ ext.result.questions = << <<"?">>, <<"?">> >>

\* a turn whose verification tasks were dispatched and have not all
\* completed
Verifying(t) ==
    /\ tasks[t].pc = "rp_wait_verify"
    /\ Len(tasks[t].vdone) < Len(tasks[t].code_blocks)

\* every append is made by the code of the orchestrator, in the task
\* that holds the event loop
AppendsByOrchestrator ==
    IsAppendStep =>
        /\ call'.src \in {"seed", "prompt", "reply", "answer",
                          "refine_prompt", "refine_reply"}
        /\ call'.branch \in DOMAIN tasks
        /\ running = call'.branch \/ running' = call'.branch

\* C28 (as claimed): from the dispatch of a turn's verification tasks
\* until all of them have completed the store and the snapshot do not
\* change, and every append is made by the orchestrator.
C28_StoreFrozenWhileVerifying ==
    [][/\ (\E t \in DOMAIN tasks : Verifying(t)) =>
              (conversations' = conversations /\ disk' = disk)
       /\ AppendsByOrchestrator]_vars

\* C29: main appends the system message to the root branch exactly when
\* the branch is empty (the file then holds the store when the save
\* succeeds), so a run over a persisted store adds no second system
\* message, and, once the root prompt is read, it calls recursive_prompt
\* on the root branch at depth 0 without a further append;
\* recursive_prompt is entered once on the root branch.
C29_MainSeedsOnce ==
    [][/\ (tasks[Root].pc = "start" /\ tasks'[Root].pc = "main_wait_input") =>
              LET pre == get_conversation(conversations, Root)
              IN  /\ pre = <<>> =>
                       /\ call' = Called("append", Root, "system",
                                         SystemMessage, "seed", Root)
                       /\ conversations'[Root] =
                              <<Msg("system", SystemMessage, isoformat(ops'), 1)>>
                       /\ faults' = 0 =>
                              disk' = dumped(conversations', key_order')
                  /\ pre # <<>> =>
                       /\ conversations' = conversations
                       /\ disk' = disk
                       /\ faults' = faults
                       /\ call' = call
                  /\ Len(SystemMsgs(conversations'[Root])) = 1
                  /\ tasks'[Root].entered = 0
                  /\ DOMAIN tasks' = {Root}
       /\ (tasks[Root].pc = "main_wait_input" /\ tasks'[Root].pc = "rp_entry") =>
              /\ conversations' = conversations
              /\ disk' = disk
              /\ call' = call
              /\ tasks'[Root].depth = 0
              /\ tasks'[Root].entered = 0
              /\ DOMAIN tasks' = {Root}
       /\ tasks[Root].pc = "main_wait_input" =>
              tasks'[Root].pc \in {"main_wait_input", "rp_entry", "failed"}
       /\ tasks'[Root].entered <= 1
       /\ (tasks[Root].pc = "rp_entry" /\ tasks'[Root].pc # "rp_entry") =>
              /\ tasks'[Root].entered = 1
              /\ tasks'[Root].depth = tasks[Root].depth]_vars

\* main over a persisted store, the root prompt left empty: no append,
\* recursive_prompt about to be entered on root at depth 0
C29_Witness ==
    /\ tasks[Root].pc = "rp_entry"
    /\ tasks[Root].depth = 0
    /\ tasks[Root].prompt = DefaultPrompt
    /\ call = NoCall
    /\ disk.exists
    /\ conversations[Root] = <<Msg("system", SystemMessage, Earlier, 1)>>

\* C30 (as claimed): call_local_llama_inference with an empty list of
\* prompts returns the empty list and issues no inference request.
C30_EmptyBatchReturnsEmpty ==
    (ext.fn = "call_local_llama_inference" /\ ext.done
        /\ ext.arg.batch_size = 0) =>
        /\ ~ext.result.raised
        /\ ext.result.returned = "empty_list"
        /\ ext.result.infer_requests = 0

\* C30 (amended): call_local_llama_inference with an empty list of prompts
\* issues no inference request; it returns the empty list at the first of
\* its MAX_RETRIES executions in which the Triton client is created, and
\* raises LocalLLMError after MAX_RETRIES executions when the client is
\* created in none of them.
C30_EmptyBatchNoInference ==
    (ext.fn = "call_local_llama_inference" /\ ext.done
        /\ ext.arg.batch_size = 0) =>
        LET n == ext.arg.max_retries
            created == {k \in 1..n : ext.arg.clients[k]}
        IN  /\ ext.result.infer_requests = 0
            /\ created # {} =>
                  /\ ~ext.result.raised
                  /\ ext.result.returned = "empty_list"
                  /\ ext.result.attempts \in created
                  /\ \A k \in created : ext.result.attempts <= k
            /\ created = {} =>
                  /\ ext.result.raised
                  /\ ext.result.error = "LocalLLMError"
                  /\ ext.result.attempts = n

\* an empty batch, the client created at the first execution while the
\* server would fail every inference: the empty list is returned
C30_Witness ==
    /\ ext.fn = "call_local_llama_inference"
    /\ ext.done
    /\ ext.arg.batch_size = 0
    /\ ext.arg.clients[1]
    /\ \A k \in DOMAIN ext.arg.outcomes : ext.arg.outcomes[k] = "LocalLLMError"
    /\ ext.result = [attempts |-> 1, raised |-> FALSE, error |-> "none",
                     returned |-> "empty_list", infer_requests |-> 0]

\* the position of a frame in the order of the phases of recursive_prompt:
\* entry (append of the prompt), generation (with the append of the reply
\* and the parsing), verification, processing of the blocks (with their
\* refinements), questioning, end
PhaseRank(pc) ==
    CASE pc \in {"start", "main_wait_input", "hq_entry", "hq_wait_input"} -> 0
      [] pc = "rp_entry" -> 1
      [] pc = "rp_generate" -> 2
      [] pc = "rp_wait_verify" -> 3
      [] pc \in {"rp_process", "rf_generate", "rf_verify"} -> 4
      [] pc = "rp_wait_questions" -> 5
      [] OTHER -> 6

\* in the frames tk, the turn of task t has verified and processed every code block of its
\* reply, and every refinement it called has returned
BlocksSettled(tk, t) ==
    LET f == tk[t]
        n == Len(f.code_blocks)
    IN  /\ f.replied
        /\ PhaseRank(f.pc) >= 5
        /\ Len(f.vdone) = n
        /\ {f.vdone[a].idx : a \in 1..Len(f.vdone)} = 1..n
        /\ Len(f.plog) = n
        /\ f.i = n + 1
        /\ \A j \in 1..n :
              /\ f.plog[j].idx = j
              /\ f.plog[j].act \in {"skip", "save", "refine"}
              /\ f.plog[j].act = "refine" =>
                    \E r \in 1..Len(f.refines) :
                        f.refines[r].idx = j /\ f.refines[r].gen = 1

\* C31: a turn goes through its phases in the order append of the prompt,
\* generation, append of the reply and parsing, verification, processing
\* of the blocks, questioning; when a question task of the turn exists,
\* and so before any of its questions is put to the human, every code
\* block of the turn has been verified and processed and every refinement
\* has returned.
C31_PhasesInOrder ==
    [][/\ \A t \in DOMAIN tasks :
              /\ PhaseRank(tasks'[t].pc) >= PhaseRank(tasks[t].pc)
              /\ (tasks[t].pc = "rp_entry" /\ tasks'[t].pc = "rp_generate") =>
                    call' = Called("append", t, "user", tasks[t].prompt,
                                   "prompt", t)
              /\ (tasks[t].pc = "rp_generate" /\ PhaseRank(tasks'[t].pc) \in 3..4) =>
                    /\ gen_calls' = gen_calls + 1
                    /\ call'.src = "reply"
                    /\ call'.branch = t
                    /\ extract_questions_and_code(call'.content) =
                          [questions |-> tasks'[t].questions,
                           code_blocks |-> tasks'[t].code_blocks]
                    /\ verify_calls' = verify_calls
                    /\ tasks'[t].vdone = <<>>
              /\ PhaseRank(tasks[t].pc) < 2 => ~tasks[t].replied
       /\ \A c \in DOMAIN tasks' :
              (tasks'[c].parent # NoTask) =>
                  /\ BlocksSettled(tasks', tasks'[c].parent)
                  /\ tasks'[c].asked > 0 =>
                        tasks'[c].question =
                            tasks'[tasks'[c].parent].questions[tasks'[c].qidx]]_vars

\* a turn whose reply held a code block and a question: the block was
\* refined, the refinement returned, and the question was then asked
C31_Witness ==
    \E c \in DOMAIN tasks :
        /\ tasks[c].parent = Root
        /\ tasks[c].asked = 1
        /\ Len(tasks[Root].plog) = 1
        /\ tasks[Root].plog[1].act = "refine"
        /\ tasks[Root].refines[1].gen = 1
        /\ tasks[Root].pc = "rp_wait_questions"

\* the user messages of history h that carry the text
Carrying(h, text) ==
    {i \in 1..Len(h) : h[i].role = "user" /\ h[i].content = text}

\* C32 (as claimed): when the follow-up generation call of an answered
\* question is about to be made, the branch of the question holds exactly
\* one user message carrying the answer.
C32_AnswerAppendedOnce ==
    \A c \in DOMAIN tasks :
        (/\ tasks[c].parent # NoTask
         /\ tasks[c].asked = 1
         /\ tasks[c].pc = "rp_generate") =>
            Cardinality(Carrying(get_conversation(conversations, c),
                                 tasks[c].answer)) = 1

\* the root branch was seeded with the system message before the run
\* entered recursive_prompt, as main does
SeededRun ==
    /\ tasks[Root].entered = 1
    /\ tasks[Root].hist0 # <<>>
    /\ tasks[Root].hist0[1].role = "system"

\* C33 (as claimed): in a run started on a seeded root branch, the
\* history that a turn is about to pass to call_model, on the root branch
\* or on the branch of a question, is not empty and begins with a system
\* message.
C33_HistoryBeginsWithSystem ==
    \A t \in DOMAIN tasks :
        (SeededRun /\ tasks[t].pc = "rp_generate") =>
            LET conversation_history == get_conversation(conversations, t)
            IN  /\ conversation_history # <<>>
                /\ conversation_history[1].role = "system"

\* the message ids of history h increase strictly with the position
IdsIncrease(h) ==
    \A i, j \in 1..Len(h) : i < j => h[i].message_id < h[j].message_id

\* C34 (as claimed): an append to a branch whose message ids are strictly
\* increasing in position order, truncating or not, leaves a branch whose
\* message ids are strictly increasing, hence pairwise distinct.
C34_MessageIdsIncrease ==
    [][(IsAppendStep
          /\ IdsIncrease(get_conversation(conversations, call'.branch))) =>
              IdsIncrease(conversations'[call'.branch])]_vars

\* C35 (as claimed): in every state of a run, every stored message has a
\* role among system, user and assistant and a content that is not empty.
C35_StoredMessagesValid ==
    \A b \in DOMAIN conversations : \A i \in 1..Len(conversations[b]) :
        /\ conversations[b][i].role \in {"system", "user", "assistant"}
        /\ conversations[b][i].content # <<>>

\* the verdict on which the step that wrote artifact n acted: for a part
\* file the gathered result of its block, for a refined file the result
\* of the verification call made by the step
VerdictBehind(n) ==
    IF n.kind = "_part" THEN tasks[n.branch].results[n.index + 1]
    ELSE ext'.result

\* C36 (as claimed): a step writes an artifact, part file or refined file,
\* only when the complete field of the verdict is the boolean true; a
\* verdict whose complete field is the string "false" writes none.
C36_SavedOnlyWhenTrue ==
    [][\A n \in DOMAIN files' \ DOMAIN files :
          /\ ~VerdictBehind(n).none
          /\ VerdictBehind(n).complete = "true"]_vars

\* C37: a task keeps its branch for the whole run and enters
\* recursive_prompt at most once; the question tasks a turn creates are
\* one per question, on branches that no task of the run has used; and an
\* append goes to the branch of the task that holds the event loop, so
\* two tasks never append to the same branch.
C37_OneTurnPerBranch ==
    [][/\ \A t \in DOMAIN tasks :
              /\ t \in DOMAIN tasks'
              /\ tasks'[t].parent = tasks[t].parent
              /\ tasks'[t].qidx = tasks[t].qidx
              /\ tasks'[t].entered \in {tasks[t].entered, tasks[t].entered + 1}
              /\ tasks'[t].entered <= 1
              /\ (tasks[t].pc = "rp_process"
                    /\ tasks'[t].pc = "rp_wait_questions") =>
                    LET new == DOMAIN tasks' \ DOMAIN tasks
                    IN  /\ Cardinality(new) = Len(tasks[t].questions)
                        /\ \A c \in new :
                              /\ tasks'[c].parent = t
                              /\ tasks'[c].entered = 0
                              /\ tasks'[c].pc = "hq_entry"
       /\ \A c \in DOMAIN tasks' \ DOMAIN tasks :
              /\ tasks'[c].parent \in DOMAIN tasks
              /\ tasks[tasks'[c].parent].pc = "rp_process"
       /\ (IsAppendStep /\ call'.src # "seed") =>
              \E t \in DOMAIN tasks :
                  /\ call'.branch = t
                  /\ running = t \/ running' = t
                  /\ tasks[t].parent # NoTask =>
                        tasks'[t].pc \in {"rp_entry", "rp_generate",
                                          "rp_wait_verify", "rp_process",
                                          "rf_generate", "rf_verify"}]_vars

\* two question tasks of the same turn are active, each has entered
\* recursive_prompt once and appended to its own branch
C37_Witness ==
    \E c1, c2 \in DOMAIN tasks :
        /\ c1 # c2
        /\ tasks[c1].parent = Root
        /\ tasks[c2].parent = Root
        /\ tasks[c1].entered = 1
        /\ tasks[c2].entered = 1
        /\ ~Ended(tasks[c1].pc)
        /\ ~Ended(tasks[c2].pc)
        /\ c1 \in DOMAIN conversations
        /\ c2 \in DOMAIN conversations
        /\ call.branch = c2

\* C38: the task of a question whose follow-up would run at a depth above
\* max_depth, which is the case of every question of a turn at depth
\* max_depth, returns at its depth test: input() is never requested for
\* it, recursive_prompt is never entered, nothing is appended to its
\* branch, and the step in which it returns changes neither the store nor
\* the snapshot and calls no model.
C38_NoQuestionBeyondMaxDepth ==
    [][/\ \A c \in DOMAIN tasks' :
              (tasks'[c].parent # NoTask) =>
                  /\ tasks'[c].depth = tasks'[tasks'[c].parent].depth + 1
                  /\ (tasks'[c].depth > max_depth) =>
                        /\ tasks'[c].asked = 0
                        /\ tasks'[c].entered = 0
                        /\ tasks'[c].pc \in {"hq_entry", "done", "cancelled"}
                        /\ c \notin DOMAIN conversations'
                        /\ IsAppendStep => call'.branch # c
       /\ \A c \in DOMAIN tasks :
              (/\ tasks[c].pc = "hq_entry"
               /\ tasks[c].depth > max_depth
               /\ tasks'[c].pc # "hq_entry") =>
                  /\ conversations' = conversations
                  /\ disk' = disk
                  /\ gen_calls' = gen_calls
                  /\ verify_calls' = verify_calls]_vars

\* a turn at depth max_depth raised a question; its task returned without
\* asking, and the turn and the run have ended normally
C38_Witness ==
    \E c \in DOMAIN tasks :
        /\ tasks[c].parent # NoTask
        /\ tasks[tasks[c].parent].depth = max_depth
        /\ tasks[tasks[c].parent].questions # <<>>
        /\ tasks[c].depth = max_depth + 1
        /\ tasks[c].pc = "done"
        /\ tasks[c].asked = 0
        /\ c \notin DOMAIN conversations
        /\ tasks[Root].pc = "done"

=============================================================================
